---- MODULE Spec2Model ----
(***************************************************************************)
(* pi-browser: the workflow executor (src/src/workflow/executor.ts) and    *)
(* the workflow scheduler (src/unnamed/part_000).                          *)
(*                                                                         *)
(* JavaScript runs one task at a time: everything a handler does between   *)
(* two awaits of an external promise is one atomic action here.  An await  *)
(* of an internal async function that settles without suspending is part   *)
(* of the same action.                                                     *)
(***************************************************************************)
EXTENDS Integers, Sequences, FiniteSets, TLC

(***************************************************************************)
(* Bounds of the model                                                     *)
(***************************************************************************)
\* retryCount of a step ranges over 0..MaxRetry
MaxRetry == 1
\* progress lines (onLog calls) the Agent Runner may emit during one run
MaxProgress == 1

\* checkSchedules() activations in a behaviour
MaxTicks == 2
\* startScheduler() calls in a behaviour
MaxStarts == 2
\* half minutes the clock advances in a behaviour
MaxHalfMinutes == 4
\* saveWorkflow messages the web client sends in a behaviour
MaxSaves == 1

(***************************************************************************)
(* Program constants                                                       *)
(***************************************************************************)
\* executor.ts:246  if (stepsExecuted > 50)
MaxStepExecutions == 50

ErrLimit    == "limit exceeded"        \* executor.ts:247
ErrStepFail == "step failed, no continuation"  \* executor.ts:257
ErrAbort    == "aborted by user"       \* executor.ts:263
ErrNothing  == "nothing to run"        \* executor.ts:234
ErrResult   == "runner result text"    \* executor.ts:189  result.result
ErrRaised   == "runner exception message"  \* executor.ts:194
NoError     == "none"                  \* error === undefined
NoStep      == 0                       \* currentStep === null
NoStepId    == "none"                  \* lastStepId === undefined

(***************************************************************************)
(* Workflows (src/src/naver-blog.ts:126-171)                               *)
(***************************************************************************)
\* a step is identified in the model by its position in workflow.steps;
\* ids are the ones the editor generates, unique within a workflow
StepIdAt(i) == IF i = 1 THEN "s1" ELSE "s2"
PromptAt(i) == IF i = 1 THEN "p1" ELSE "p2"
UnknownId   == "zz"
SuccessRefs == {"next", "end", "s1", "s2", UnknownId}
FailureRefs == {"retry", "end", "next", "s1", "s2", UnknownId}

StepAt(i) ==
  [id : {StepIdAt(i)}, prompt : {PromptAt(i)}, onSuccess : SuccessRefs,
   onFailure : FailureRefs, retryCount : 0..MaxRetry]
\* two-step workflows of the model use no unknown id, and only their first
\* step has retries
StepsOfLen(n) ==
  IF n = 0 THEN {<<>>}
  ELSE IF n = 1 THEN {<<a>> : a \in StepAt(1)}
  ELSE {st \in {<<a, b>> : a \in StepAt(1), b \in StepAt(2)} :
          /\ st[2].retryCount = 0
          /\ \A i \in 1..2 : UnknownId \notin {st[i].onSuccess, st[i].onFailure}}

\* mission: absent/empty, whitespace only, or a text
Missions == {"", " ", "go"}

\* maxTurns?: number of a workflow: absent, or a number    naver-blog.ts:134
NoMaxTurns == -1
MaxTurnsValues == {NoMaxTurns, 0, 5}
\* the default maxTurns of a step                          naver-blog.ts:171
DEFAULT_MAX_TURNS == 20
\* the default maxTurns of a mission                       executor.ts:156
MissionMaxTurns == 30

\* the workflows of the model set maxTurns only with a mission and no steps
Workflows ==
  {w \in [mission : Missions, maxTurns : MaxTurnsValues,
          steps : StepsOfLen(0) \cup StepsOfLen(1) \cup StepsOfLen(2)] :
     w.maxTurns # NoMaxTurns => (w.mission = "go" /\ w.steps = <<>>)}

\* first index of the step with this id, 0 when there is none (findIndex / find)
FirstIndex(steps, id) ==
  IF \E i \in 1..Len(steps) : steps[i].id = id
  THEN CHOOSE i \in 1..Len(steps) :
         steps[i].id = id /\ \A j \in 1..(i - 1) : steps[j].id # id
  ELSE 0

\* a reference that points at the step itself or at an earlier one
BackRef(steps, i, ref) ==
  LET t == FirstIndex(steps, ref) IN t # 0 /\ t <= i
Cyclic(w) ==
  \E i \in 1..Len(w.steps) :
    BackRef(w.steps, i, w.steps[i].onSuccess) \/ BackRef(w.steps, i, w.steps[i].onFailure)

(***************************************************************************)
(* The Agent Runner (ExecutorContext.runStepAgent, executor.ts:19-23): an  *)
(* external collaborator.  "any" settles each call as it likes; a table    *)
(* settles a call by its prompt.                                           *)
(***************************************************************************)
Outcomes == {"ok", "fail", "raise"}
Prompts  == {"p1", "p2", "go"}
AnyRunner == [kind |-> "any", table |-> [p \in {"p1", "p2"} |-> "ok"]]
RunnerTables == [kind : {"table"}, table : [{"p1", "p2"} -> {"ok", "fail"}]]
\* the outcomes runner r may give to a call with this prompt
RunnerOutcomes(r, prompt) == IF r.kind = "any" THEN Outcomes ELSE {r.table[prompt]}

(***************************************************************************)
(* State                                                                   *)
(***************************************************************************)
VARIABLES
  executor,          \* WorkflowExecutor instances: name -> fields and position
  store,             \* the Workflow Store: id -> persisted record (one file each)
  clock,             \* Date.now(), in ms since a midnight that begins a Sunday
  zone,              \* the host's time zone: its offsets and when they change
  schedulerInterval, \* part_000:13  the handle of the armed timer, or NoTimer
  callbacks,         \* part_000:14  the callbacks of the last start(), or NoCallbacks
  timers,            \* the event loop's armed interval timers: handle -> next due time
  ticks,             \* checkSchedules() activations suspended at their await
  sched,             \* history of the scheduler (counters and observations)
  client,            \* the web client's page: the workflow list it last received
  probe              \* an input of calculateNextRun and what it returned

execVars  == <<executor>>
schedVars == <<store, clock, zone, schedulerInterval, callbacks, timers, ticks, sched>>
vars == <<executor, store, clock, zone, schedulerInterval, callbacks, timers, ticks, sched, client, probe>>

\* new WorkflowExecutor(workflow, ctx, onLog)            executor.ts:26-37
NewExecutor(w, r) ==
  [workflow |-> w, ctx |-> r, logs |-> <<>>, aborted |-> FALSE,
   pc |-> "init",            \* init, mission_await, step_await, backoff, done
   currentStep |-> NoStep, attempt |-> 0, stepsExecuted |-> 0,
   lastStepId |-> NoStepId, error |-> NoError,
   result |-> [returned |-> FALSE, success |-> FALSE, stepsExecuted |-> 0,
               lastStepId |-> NoStepId, error |-> NoError],
   sink |-> <<>>,            \* what the onLog callback has received
   calls |-> <<>>,           \* history: prompts handed to the Agent Runner
   turns |-> <<>>,           \* history: maxTurns handed to the Agent Runner
   visitsRun |-> 0,          \* history: step visits with at least one attempt
   visitCalls |-> 0,         \* history: Agent Runner calls of the latest step visit
   abortedAt |-> -1,         \* history: stepsExecuted when abort() was first called
   abortPc |-> "never",      \* history: where the run was when abort() was first called
   walkError |-> NoError,    \* history: error as the walk left it (executor.ts:260)
   progress |-> 0]           \* history: progress lines emitted

(***************************************************************************)
(* WorkflowExecutor, as functions from an instance to the instance after   *)
(* the code has run up to its next suspension point                        *)
(***************************************************************************)
\* log(stepId, stepName, type, message)                  executor.ts:49-64
logNewestFirst(e, stepId, type, message) ==
  LET entry == [stepId |-> stepId, type |-> type, message |-> message] IN
  [e EXCEPT !.logs = <<entry>> \o @, !.sink = Append(@, entry)]
log(e, stepId, type, message) ==
  LET entry == [stepId |-> stepId, type |-> type, message |-> message] IN
  [e EXCEPT !.logs = Append(@, entry), !.sink = Append(@, entry)]

\* the call this.ctx.runStepAgent(prompt, ...)           executor.ts:73, 162
callRunner(e, prompt, maxTurns, pc) ==
  [e EXCEPT !.calls = Append(@, prompt), !.turns = Append(@, maxTurns), !.pc = pc]

Step(e) == e.workflow.steps[e.currentStep]

\* findNextStep(step, success)                           executor.ts:127-148
findNextStepRetryLoops(w, i, success) ==
  LET nextStepRef == IF success THEN w.steps[i].onSuccess ELSE w.steps[i].onFailure IN
  IF nextStepRef = "end" THEN NoStep
  ELSE IF nextStepRef = "next"
    THEN LET currentIndex == FirstIndex(w.steps, w.steps[i].id) IN
         IF currentIndex = 0 \/ currentIndex >= Len(w.steps) THEN NoStep
         ELSE currentIndex + 1
  ELSE IF nextStepRef = "retry" THEN i
  ELSE FirstIndex(w.steps, nextStepRef)
findNextStepNextWraps(w, i, success) ==
  LET nextStepRef == IF success THEN w.steps[i].onSuccess ELSE w.steps[i].onFailure IN
  IF nextStepRef = "end" THEN NoStep
  ELSE IF nextStepRef = "next"
    THEN LET currentIndex == FirstIndex(w.steps, w.steps[i].id) IN
         IF currentIndex = 0 THEN NoStep
         ELSE IF currentIndex >= Len(w.steps) THEN 1
         ELSE currentIndex + 1
  ELSE IF nextStepRef = "retry" THEN NoStep
  ELSE FirstIndex(w.steps, nextStepRef)
findNextStepUnknownIsFirst(w, i, success) ==
  LET nextStepRef == IF success THEN w.steps[i].onSuccess ELSE w.steps[i].onFailure IN
  IF nextStepRef = "end" THEN NoStep
  ELSE IF nextStepRef = "next"
    THEN LET currentIndex == FirstIndex(w.steps, w.steps[i].id) IN
         IF currentIndex = 0 \/ currentIndex >= Len(w.steps) THEN NoStep
         ELSE currentIndex + 1
  ELSE IF nextStepRef = "retry" THEN NoStep
  ELSE IF FirstIndex(w.steps, nextStepRef) = 0 THEN 1
  ELSE FirstIndex(w.steps, nextStepRef)
findNextStep(w, i, success) ==
  LET nextStepRef == IF success THEN w.steps[i].onSuccess ELSE w.steps[i].onFailure IN
  IF nextStepRef = "end" THEN NoStep
  ELSE IF nextStepRef = "next"
    THEN LET currentIndex == FirstIndex(w.steps, w.steps[i].id) IN
         IF currentIndex = 0 \/ currentIndex >= Len(w.steps) THEN NoStep
         ELSE currentIndex + 1
  ELSE IF nextStepRef = "retry" THEN NoStep
  ELSE FirstIndex(w.steps, nextStepRef)

\* executeStep(step) up to its await                     executor.ts:69-79
executeStepCountsAttempts(e) ==
  callRunner(
    [log(e, Step(e).id, "info", "run") EXCEPT
       !.visitsRun = IF e.attempt = 0 THEN @ + 1 ELSE @,
       !.visitCalls = IF e.attempt = 0 THEN 1 ELSE @ + 1,
       !.stepsExecuted = IF e.attempt = 0 THEN @ ELSE @ + 1],
    Step(e).prompt, DEFAULT_MAX_TURNS, "step_await")
executeStep(e) ==
  callRunner(
    [log(e, Step(e).id, "info", "run") EXCEPT
       !.visitsRun = IF e.attempt = 0 THEN @ + 1 ELSE @,
       !.visitCalls = IF e.attempt = 0 THEN 1 ELSE @ + 1],
    Step(e).prompt, DEFAULT_MAX_TURNS, "step_await")

\* the end of execute(), after the walk                  executor.ts:262-287
finishAbortKeepsError(e) ==
  LET error == IF e.aborted /\ e.error = NoError THEN ErrAbort ELSE e.error
      success == error = NoError /\ ~e.aborted
      e1 == log(e, "workflow", IF success THEN "success" ELSE "error", "summary")
  IN [e1 EXCEPT !.error = error, !.pc = "done", !.walkError = e.error,
        !.result = [returned |-> TRUE, success |-> success,
                    stepsExecuted |-> e.stepsExecuted,
                    lastStepId |-> e.lastStepId, error |-> error]]
finishLogsBeforeAbortOverride(e) ==
  LET error == IF e.aborted THEN ErrAbort ELSE e.error
      success == error = NoError /\ ~e.aborted
      e1 == log(e, "workflow", IF e.error = NoError THEN "success" ELSE "error", "summary")
  IN [e1 EXCEPT !.error = error, !.pc = "done", !.walkError = e.error,
        !.result = [returned |-> TRUE, success |-> success,
                    stepsExecuted |-> e.stepsExecuted,
                    lastStepId |-> e.lastStepId, error |-> error]]
finish(e) ==
  LET error == IF e.aborted THEN ErrAbort ELSE e.error
      success == error = NoError /\ ~e.aborted
      e1 == log(e, "workflow", IF success THEN "success" ELSE "error", "summary")
  IN [e1 EXCEPT !.error = error, !.pc = "done", !.walkError = e.error,
        !.result = [returned |-> TRUE, success |-> success,
                    stepsExecuted |-> e.stepsExecuted,
                    lastStepId |-> e.lastStepId, error |-> error]]

RECURSIVE walk(_)

\* after executeStepWithRetry returned `success`         executor.ts:253-259
settledKeepsEarlierFailure(e, success) ==
  LET next == findNextStep(e.workflow, e.currentStep, success)
      e1 == [e EXCEPT !.currentStep = next,
                      !.error = IF success THEN @ ELSE ErrStepFail]
  IN IF ~success /\ next = NoStep
     THEN finish(e1)
     ELSE walk(e1)
settled(e, success) ==
  LET next == findNextStep(e.workflow, e.currentStep, success)
      e1 == [e EXCEPT !.currentStep = next]
  IN IF ~success /\ next = NoStep
     THEN finish([e1 EXCEPT !.error = ErrStepFail])
     ELSE walk(e1)

\* the head of the loop of executeStepWithRetry          executor.ts:101-112
retryLoopOneAttemptLess(e) ==
  IF e.attempt < Step(e).retryCount \/ e.attempt = 0
  THEN IF e.aborted
       THEN settled(log(e, Step(e).id, "error", "aborted"), FALSE)
       ELSE IF e.attempt > 0
       THEN [log(e, Step(e).id, "info", "retry") EXCEPT !.pc = "backoff"]
       ELSE executeStep(e)
  ELSE settled(e, FALSE)
retryLoopSilentRetry(e) ==
  IF e.attempt <= Step(e).retryCount
  THEN IF e.aborted
       THEN settled(log(e, Step(e).id, "error", "aborted"), FALSE)
       ELSE IF e.attempt > 0
       THEN [e EXCEPT !.pc = "backoff"]
       ELSE executeStep(e)
  ELSE settled(e, FALSE)
retryLoop(e) ==
  IF e.attempt <= Step(e).retryCount
  THEN IF e.aborted
       THEN settled(log(e, Step(e).id, "error", "aborted"), FALSE)
       ELSE IF e.attempt > 0
       THEN [log(e, Step(e).id, "info", "retry") EXCEPT !.pc = "backoff"]
       ELSE executeStep(e)
  ELSE settled(e, FALSE)

\* the head of the loop of execute()                     executor.ts:241-252
walkLimitOffByOne(e) ==
  IF e.currentStep # NoStep /\ ~e.aborted
  THEN LET e1 == [e EXCEPT !.lastStepId = Step(e).id, !.stepsExecuted = @ + 1,
                           !.attempt = 0]
       IN IF e1.stepsExecuted >= MaxStepExecutions
          THEN finish(log([e1 EXCEPT !.error = ErrLimit], Step(e).id, "error", "limit"))
          ELSE retryLoop(e1)
  ELSE finish(e)
walkCountsBeforeAbortCheck(e) ==
  IF e.currentStep # NoStep
  THEN LET e1 == [e EXCEPT !.lastStepId = Step(e).id, !.stepsExecuted = @ + 1,
                           !.attempt = 0]
       IN IF e.aborted THEN finish(e1)
          ELSE IF e1.stepsExecuted > MaxStepExecutions
          THEN finish(log([e1 EXCEPT !.error = ErrLimit], Step(e).id, "error", "limit"))
          ELSE retryLoop(e1)
  ELSE finish(e)
walkAbortSeenAfterBranch(e) ==
  IF e.currentStep # NoStep /\ (~e.aborted \/ e.stepsExecuted = 1)
  THEN LET e1 == [e EXCEPT !.lastStepId = Step(e).id, !.stepsExecuted = @ + 1,
                           !.attempt = 0]
       IN IF e1.stepsExecuted > MaxStepExecutions
          THEN finish(log([e1 EXCEPT !.error = ErrLimit], Step(e).id, "error", "limit"))
          ELSE retryLoop(e1)
  ELSE finish(e)
walk(e) ==
  IF e.currentStep # NoStep /\ ~e.aborted
  THEN LET e1 == [e EXCEPT !.lastStepId = Step(e).id, !.stepsExecuted = @ + 1,
                           !.attempt = 0]
       IN IF e1.stepsExecuted > MaxStepExecutions
          THEN finish(log([e1 EXCEPT !.error = ErrLimit], Step(e).id, "error", "limit"))
          ELSE retryLoop(e1)
  ELSE finish(e)

\* the runner's promise for a step settled               executor.ts:81-91, 114-118
stepSettledRaiseEscapes(e, o) ==
  IF o = "ok"
  THEN settled(log(e, Step(e).id, "success", "completed"), TRUE)
  ELSE IF o = "raise" THEN [e EXCEPT !.pc = "rejected"]
  ELSE LET e1 == log(e, Step(e).id, "error", "failed")
       IN retryLoop([e1 EXCEPT !.attempt = @ + 1])
stepSettled(e, o) ==
  IF o = "ok"
  THEN settled(log(e, Step(e).id, "success", "completed"), TRUE)
  ELSE LET e1 == log(e, Step(e).id, "error", IF o = "fail" THEN "failed" ELSE "raised")
       IN retryLoop([e1 EXCEPT !.attempt = @ + 1])

\* String.prototype.trim on the mission texts of the model
trim(s) == IF s = " " THEN "" ELSE s
\* this.workflow.mission && this.workflow.mission.trim() executor.ts:222
MissionMode(w) == w.mission # "" /\ trim(w.mission) # ""

\* executeMission() up to its await                      executor.ts:153-168
executeMissionStepDefault(e) ==
  LET maxTurns == IF e.workflow.maxTurns \in {NoMaxTurns, 0}
                  THEN DEFAULT_MAX_TURNS ELSE e.workflow.maxTurns
  IN callRunner(log(log(e, "mission", "info", "mission"), "mission", "info", "working"),
                e.workflow.mission, maxTurns, "mission_await")
executeMissionChecksAbort(e) ==
  LET maxTurns == IF e.workflow.maxTurns \in {NoMaxTurns, 0}
                  THEN MissionMaxTurns ELSE e.workflow.maxTurns
  IN IF e.aborted
     THEN [log(e, "mission", "error", "aborted") EXCEPT !.pc = "done",
             !.result = [returned |-> TRUE, success |-> FALSE, stepsExecuted |-> 0,
                         lastStepId |-> "mission", error |-> ErrAbort]]
     ELSE callRunner(log(log(e, "mission", "info", "mission"), "mission", "info", "working"),
                     e.workflow.mission, maxTurns, "mission_await")
executeMission(e) ==
  LET maxTurns == IF e.workflow.maxTurns \in {NoMaxTurns, 0}
                  THEN MissionMaxTurns ELSE e.workflow.maxTurns
  IN callRunner(log(log(e, "mission", "info", "mission"), "mission", "info", "working"),
                e.workflow.mission, maxTurns, "mission_await")

\* the runner's promise for the mission settled          executor.ts:170-207
missionSettledRaiseHidesText(e, o) ==
  LET success == o = "ok"
      error == IF o = "ok" THEN NoError ELSE ErrResult
      e1 == log(e, "mission", IF success THEN "success" ELSE "error",
                IF o = "ok" THEN "completed" ELSE IF o = "fail" THEN "failed" ELSE "raised")
  IN [e1 EXCEPT !.pc = "done",
        !.result = [returned |-> TRUE, success |-> success, stepsExecuted |-> 1,
                    lastStepId |-> "mission", error |-> error]]
missionSettledRaiseEscapes(e, o) ==
  IF o = "raise" THEN [e EXCEPT !.pc = "rejected"]
  ELSE
    LET success == o = "ok"
        error == IF o = "ok" THEN NoError ELSE ErrResult
        e1 == log(e, "mission", IF success THEN "success" ELSE "error",
                  IF o = "ok" THEN "completed" ELSE "failed")
    IN [e1 EXCEPT !.pc = "done",
          !.result = [returned |-> TRUE, success |-> success, stepsExecuted |-> 1,
                      lastStepId |-> "mission", error |-> error]]
missionSettled(e, o) ==
  LET success == o = "ok"
      error == IF o = "ok" THEN NoError ELSE IF o = "fail" THEN ErrResult ELSE ErrRaised
      e1 == log(e, "mission", IF success THEN "success" ELSE "error",
                IF o = "ok" THEN "completed" ELSE IF o = "fail" THEN "failed" ELSE "raised")
  IN [e1 EXCEPT !.pc = "done",
        !.result = [returned |-> TRUE, success |-> success, stepsExecuted |-> 1,
                    lastStepId |-> "mission", error |-> error]]

\* execute() up to its first suspension point            executor.ts:213-241
executeStepsFirst(e) ==
  LET e1 == log(e, "workflow", "info", "started") IN
  IF Len(e.workflow.steps) > 0
  THEN walk([e1 EXCEPT !.currentStep = 1])
  ELSE IF MissionMode(e.workflow) THEN executeMission(e1)
  ELSE [e1 EXCEPT !.pc = "done",
          !.result = [returned |-> TRUE, success |-> FALSE, stepsExecuted |-> 0,
                      lastStepId |-> NoStepId, error |-> ErrNothing]]
executeLogsNothingToRun(e) ==
  LET e1 == log(e, "workflow", "info", "started") IN
  IF MissionMode(e.workflow) THEN executeMission(e1)
  ELSE IF Len(e.workflow.steps) = 0
  THEN [log(e1, "workflow", "error", "failed") EXCEPT !.pc = "done",
          !.result = [returned |-> TRUE, success |-> FALSE, stepsExecuted |-> 0,
                      lastStepId |-> NoStepId, error |-> ErrNothing]]
  ELSE walk([e1 EXCEPT !.currentStep = 1])
execute(e) ==
  LET e1 == log(e, "workflow", "info", "started") IN
  IF MissionMode(e.workflow) THEN executeMission(e1)
  ELSE IF Len(e.workflow.steps) = 0
  THEN [e1 EXCEPT !.pc = "done",
          !.result = [returned |-> TRUE, success |-> FALSE, stepsExecuted |-> 0,
                      lastStepId |-> NoStepId, error |-> ErrNothing]]
  ELSE walk([e1 EXCEPT !.currentStep = 1])

\* abort()                                               executor.ts:42-44
abort(e) ==
  [e EXCEPT !.aborted = TRUE,
            !.abortedAt = IF e.aborted THEN @ ELSE e.stepsExecuted,
            !.abortPc = IF e.aborted THEN @ ELSE e.pc]

(***************************************************************************)
(* Actions of the executor.  Every instance of the state receives the same *)
(* event: with one instance this is the executor, with two it is the same  *)
(* run of two workflows side by side.                                      *)
(***************************************************************************)
Main == executor["main"]
Each(f(_), at) ==
  [r \in DOMAIN executor |-> IF executor[r].pc \in at THEN f(executor[r]) ELSE executor[r]]
AllPcs == {"init", "mission_await", "step_await", "backoff", "done"}

\* the host calls execute()
Execute ==
  /\ Main.pc = "init"
  /\ executor' = Each(execute, {"init"})
  /\ UNCHANGED <<schedVars, client, probe>>

\* the host calls abort(), at any time
Abort ==
  /\ ~Main.aborted
  /\ executor' = Each(abort, AllPcs)
  /\ UNCHANGED <<schedVars, client, probe>>

\* the Agent Runner streams a progress line through onLog  executor.ts:76-78, 165-167
RunnerProgress ==
  /\ Main.pc \in {"step_await", "mission_await"}
  /\ Main.ctx.kind = "any"
  /\ Main.progress < MaxProgress
  /\ LET line(e) == [log(e, IF e.pc = "mission_await" THEN "mission" ELSE Step(e).id,
                         "info", "progress") EXCEPT !.progress = @ + 1]
     IN executor' = Each(line, {"step_await", "mission_await"})
  /\ UNCHANGED <<schedVars, client, probe>>

\* the Agent Runner settles a step's call
StepSettles ==
  /\ Main.pc = "step_await"
  /\ \E o \in RunnerOutcomes(Main.ctx, Step(Main).prompt) :
       LET f(e) == stepSettled(e, o) IN executor' = Each(f, {"step_await"})
  /\ UNCHANGED <<schedVars, client, probe>>

\* the 1-second back-off of a retry elapses              executor.ts:109-112
BackoffElapses ==
  /\ Main.pc = "backoff"
  /\ executor' = Each(executeStep, {"backoff"})
  /\ UNCHANGED <<schedVars, client, probe>>

\* the Agent Runner settles the mission's call
MissionSettles ==
  /\ Main.pc = "mission_await"
  /\ \E o \in Outcomes :
       LET f(e) == missionSettled(e, o) IN executor' = Each(f, {"mission_await"})
  /\ UNCHANGED <<schedVars, client, probe>>

NextExec ==
  \/ Execute
  \/ Abort
  \/ RunnerProgress
  \/ StepSettles
  \/ BackoffElapses
  \/ MissionSettles

(***************************************************************************)
(* Time.  An instant is a number of ms since a midnight that begins a      *)
(* Sunday on the host's standard-time clock.  A Date reads and sets its    *)
(* fields on the host's local clock, which is the zone's offset ahead.     *)
(***************************************************************************)
MsPerMinute == 60 * 1000
MsPerHour   == 60 * MsPerMinute
MsPerDay    == 24 * MsPerHour
\* the grain of the model's clock
HalfMinute  == MsPerMinute \div 2
NoTime      == 0                       \* undefined / null / 0: all falsy

\* zones: the local clock is `before` ahead until instant `at`, `after` from then on
StandardZone == [at |-> NoTime, before |-> 0, after |-> 0]
\* clocks go forward an hour on Tuesday at 02:00 local time
SpringZone   == [at |-> 2 * MsPerDay + 2 * MsPerHour, before |-> 0, after |-> MsPerHour]
\* clocks go back an hour on Tuesday at 02:00 local (daylight-saving) time
FallZone     == [at |-> 2 * MsPerDay + MsPerHour, before |-> MsPerHour, after |-> 0]
Zones == {StandardZone, SpringZone, FallZone}

\* the local clock's reading at instant t, and the instant of a reading: where
\* the reading occurs twice the earlier instant, where it never occurs the
\* instant found with the offset before the change (ECMAScript UTC(t))
Offset(t)   == IF t < zone.at THEN zone.before ELSE zone.after
Wall(t)     == t + Offset(t)
FromWall(w) ==
  IF Wall(w - zone.before) = w THEN w - zone.before
  ELSE IF Wall(w - zone.after) = w THEN w - zone.after
  ELSE w - zone.before

\* Date.prototype.getDay(), 0 = Sunday
getDay(t) == (Wall(t) \div MsPerDay) % 7
\* Date.prototype.setHours(hours, minutes, 0, 0)
setHours(t, hours, minutes) ==
  FromWall((Wall(t) \div MsPerDay) * MsPerDay + hours * MsPerHour + minutes * MsPerMinute)
\* next.setDate(next.getDate() + days)
addDays(t, days) == FromWall(Wall(t) + days * MsPerDay)

\* a time text "HH:MM" is the sequence of its characters
Digits == <<"0", "1", "2", "3", "4", "5", "6", "7", "8", "9">>
DigitValue(c) == (CHOOSE d \in 1..10 : Digits[d] = c) - 1
RECURSIVE Number(_)
\* Number(text) for a text of digits (Number("") is 0)
Number(text) ==
  IF text = <<>> THEN 0
  ELSE Number(SubSeq(text, 1, Len(text) - 1)) * 10 + DigitValue(text[Len(text)])
\* text.split(":"), its first two parts, for a text with one colon
split(text) ==
  LET k == CHOOSE i \in 1..Len(text) : text[i] = ":" /\ \A j \in 1..(i - 1) : text[j] # ":"
  IN <<SubSeq(text, 1, k - 1), SubSeq(text, k + 1, Len(text))>>
DefaultTime == <<"0", "9", ":", "0", "0">>          \* part_000:33  "09:00"
\* (schedule.time || "09:00").split(":").map(Number)
parseTime(time) ==
  LET parts == split(IF time = <<>> THEN DefaultTime ELSE time)
  IN <<Number(parts[1]), Number(parts[2])>>

(***************************************************************************)
(* Scheduled workflows, as the scheduler sees them                         *)
(***************************************************************************)
NoSchedule ==
  [defined |-> FALSE, enabled |-> FALSE, type |-> "interval", intervalMinutes |-> 0,
   time |-> <<>>, dayOfWeek |-> -1, lastRun |-> NoTime, nextRun |-> NoTime]

\* calculateNextRun(workflow)                            part_000:19-60
\* now is the Date.now() of line 23, today the later new Date() of line 34/45
calculateNextRunDailyNoRoll(workflow, now, today) ==
  LET schedule == workflow.schedule IN
  IF ~schedule.defined \/ ~schedule.enabled THEN NoTime
  ELSE IF schedule.type = "interval"
    THEN LET intervalMs ==
               (IF schedule.intervalMinutes = 0 THEN 60 ELSE schedule.intervalMinutes) * 60 * 1000
         IN schedule.lastRun + intervalMs
  ELSE IF schedule.type = "daily"
    THEN LET hm == parseTime(schedule.time)
             next == setHours(today, hm[1], hm[2])
         IN IF next < now THEN addDays(next, 1) ELSE next
  ELSE IF schedule.type = "weekly"
    THEN LET hm == parseTime(schedule.time)
             targetDay == IF schedule.dayOfWeek = -1 THEN 1 ELSE schedule.dayOfWeek
             next == setHours(today, hm[1], hm[2])
             currentDay == getDay(next)
             diff == targetDay - currentDay
             daysUntil == IF diff < 0 \/ (diff = 0 /\ next <= now) THEN diff + 7 ELSE diff
         IN addDays(next, daysUntil)
  ELSE NoTime
calculateNextRunWeeklySameDay(workflow, now, today) ==
  LET schedule == workflow.schedule IN
  IF ~schedule.defined \/ ~schedule.enabled THEN NoTime
  ELSE IF schedule.type = "interval"
    THEN LET intervalMs ==
               (IF schedule.intervalMinutes = 0 THEN 60 ELSE schedule.intervalMinutes) * 60 * 1000
         IN schedule.lastRun + intervalMs
  ELSE IF schedule.type = "daily"
    THEN LET hm == parseTime(schedule.time)
             next == setHours(today, hm[1], hm[2])
         IN IF next <= now THEN addDays(next, 1) ELSE next
  ELSE IF schedule.type = "weekly"
    THEN LET hm == parseTime(schedule.time)
             targetDay == IF schedule.dayOfWeek = -1 THEN 1 ELSE schedule.dayOfWeek
             next == setHours(today, hm[1], hm[2])
             currentDay == getDay(next)
             diff == targetDay - currentDay
             daysUntil == IF diff < 0 THEN diff + 7 ELSE diff
         IN addDays(next, daysUntil)
  ELSE NoTime
calculateNextRunIgnoresEnabled(workflow, now, today) ==
  LET schedule == workflow.schedule IN
  IF ~schedule.defined THEN NoTime
  ELSE IF schedule.type = "interval"
    THEN LET intervalMs ==
               (IF schedule.intervalMinutes = 0 THEN 60 ELSE schedule.intervalMinutes) * 60 * 1000
         IN schedule.lastRun + intervalMs
  ELSE IF schedule.type = "daily"
    THEN LET hm == parseTime(schedule.time)
             next == setHours(today, hm[1], hm[2])
         IN IF next <= now THEN addDays(next, 1) ELSE next
  ELSE IF schedule.type = "weekly"
    THEN LET hm == parseTime(schedule.time)
             targetDay == IF schedule.dayOfWeek = -1 THEN 1 ELSE schedule.dayOfWeek
             next == setHours(today, hm[1], hm[2])
             currentDay == getDay(next)
             diff == targetDay - currentDay
             daysUntil == IF diff < 0 \/ (diff = 0 /\ next <= now) THEN diff + 7 ELSE diff
         IN addDays(next, daysUntil)
  ELSE NoTime
calculateNextRunIntervalSinceNow(workflow, now, today) ==
  LET schedule == workflow.schedule IN
  IF ~schedule.defined \/ ~schedule.enabled THEN NoTime
  ELSE IF schedule.type = "interval"
    THEN LET intervalMs ==
               (IF schedule.intervalMinutes = 0 THEN 60 ELSE schedule.intervalMinutes) * 60 * 1000
         IN now + intervalMs
  ELSE IF schedule.type = "daily"
    THEN LET hm == parseTime(schedule.time)
             next == setHours(today, hm[1], hm[2])
         IN IF next <= now THEN addDays(next, 1) ELSE next
  ELSE IF schedule.type = "weekly"
    THEN LET hm == parseTime(schedule.time)
             targetDay == IF schedule.dayOfWeek = -1 THEN 1 ELSE schedule.dayOfWeek
             next == setHours(today, hm[1], hm[2])
             currentDay == getDay(next)
             diff == targetDay - currentDay
             daysUntil == IF diff < 0 \/ (diff = 0 /\ next <= now) THEN diff + 7 ELSE diff
         IN addDays(next, daysUntil)
  ELSE NoTime
calculateNextRun(workflow, now, today) ==
  LET schedule == workflow.schedule IN
  IF ~schedule.defined \/ ~schedule.enabled THEN NoTime
  ELSE IF schedule.type = "interval"
    THEN LET intervalMs ==
               (IF schedule.intervalMinutes = 0 THEN 60 ELSE schedule.intervalMinutes) * 60 * 1000
         IN schedule.lastRun + intervalMs
  ELSE IF schedule.type = "daily"
    THEN LET hm == parseTime(schedule.time)
             next == setHours(today, hm[1], hm[2])
         IN IF next <= now THEN addDays(next, 1) ELSE next
  ELSE IF schedule.type = "weekly"
    THEN LET hm == parseTime(schedule.time)
             targetDay == IF schedule.dayOfWeek = -1 THEN 1 ELSE schedule.dayOfWeek
             next == setHours(today, hm[1], hm[2])
             currentDay == getDay(next)
             diff == targetDay - currentDay
             daysUntil == IF diff < 0 \/ (diff = 0 /\ next <= now) THEN diff + 7 ELSE diff
         IN addDays(next, daysUntil)
  ELSE NoTime

\* getNextRunTime(workflow)                              part_000:152-155
getNextRunTime(workflow, now, today) == calculateNextRun(workflow, now, today)

(***************************************************************************)
(* The Workflow Store                  executor.ts:329-378 (storage module) *)
(***************************************************************************)
\* saveWorkflow(workflow): stamps updatedAt and writes the record
stamp(workflow, now) == [workflow EXCEPT !.updatedAt = now]
saveWorkflow(st, workflow, now) ==
  [id \in DOMAIN st \cup {workflow.id} |->
     IF id = workflow.id THEN stamp(workflow, now) ELSE st[id]]

\* loadWorkflows(): every record, sorted by updatedAt descending; records
\* with equal updatedAt come in the directory's order, which is any order
loadWorkflows(st) ==
  {order \in [1..Cardinality(DOMAIN st) -> DOMAIN st] :
     /\ \A i, j \in DOMAIN order : i # j => order[i] # order[j]
     /\ \A i, j \in DOMAIN order : i < j => st[order[i]].updatedAt >= st[order[j]].updatedAt}
Loaded(st, order) == [i \in DOMAIN order |-> st[order[i]]]

(***************************************************************************)
(* The scheduler                                              part_000     *)
(***************************************************************************)
NoTimer     == 0
NoCallbacks == "null"
TickPeriod  == 60 * 1000                                   \* part_000:121
\* the instant behaviours of the scheduler begin at: a Monday, 08:59:00
Clock0 == MsPerDay + 8 * MsPerHour + 59 * MsPerMinute

\* a scheduled workflow whose run is due at `now`         part_000:72-82
Due(workflow, now) ==
  /\ workflow.schedule.defined /\ workflow.schedule.enabled /\ workflow.enabled
  /\ workflow.schedule.nextRun # NoTime
  /\ workflow.schedule.nextRun <= now

RECURSIVE checkLoop(_)
\* the loop of checkSchedules() from workflow t.i on, up to the await of a
\* run or to the end of the pass                          part_000:71-98
\* S = [st: the store, t: the activation, ended: whether the pass is over]
checkLoopIgnoresEnabled(S) ==
  IF S.t.i > Len(S.t.workflows) THEN [S EXCEPT !.ended = TRUE]
  ELSE
    LET workflow == S.t.workflows[S.t.i] IN
    IF ~(workflow.schedule.defined /\ workflow.schedule.enabled)
    THEN checkLoop([S EXCEPT !.t.i = @ + 1, !.t.seen = @ \cup {workflow.id}])
    ELSE IF workflow.schedule.nextRun = NoTime
    THEN LET w1 == [workflow EXCEPT
                      !.schedule.nextRun = calculateNextRun(workflow, S.clock, S.clock)]
         IN checkLoop([S EXCEPT !.st = saveWorkflow(S.st, w1, S.clock),
                                !.written = @ \cup {workflow.id},
                                !.t.wrote = @ \cup {workflow.id},
                                !.t.workflows[S.t.i] = stamp(w1, S.clock),
                                !.t.i = @ + 1, !.t.seen = @ \cup {workflow.id},
                                !.t.computed = @ \cup {workflow.id},
                                !.log = Append(@, <<"computed", workflow.id>>)])
    ELSE IF workflow.schedule.nextRun <= S.t.now
    THEN [S EXCEPT !.t.invoked = @ \cup {workflow.id}, !.t.seen = @ \cup {workflow.id},
                   !.log = Append(@, <<"run", workflow.id>>)]
    ELSE checkLoop([S EXCEPT !.t.i = @ + 1, !.t.seen = @ \cup {workflow.id}])
checkLoopRunsWhatItComputed(S) ==
  IF S.t.i > Len(S.t.workflows) THEN [S EXCEPT !.ended = TRUE]
  ELSE
    LET workflow == S.t.workflows[S.t.i] IN
    IF ~(workflow.schedule.defined /\ workflow.schedule.enabled) \/ ~workflow.enabled
    THEN checkLoop([S EXCEPT !.t.i = @ + 1, !.t.seen = @ \cup {workflow.id}])
    ELSE IF workflow.schedule.nextRun = NoTime
    THEN LET w1 == [workflow EXCEPT
                      !.schedule.nextRun = calculateNextRun(workflow, S.clock, S.clock)]
             S1 == [S EXCEPT !.st = saveWorkflow(S.st, w1, S.clock),
                             !.written = @ \cup {workflow.id},
                             !.t.wrote = @ \cup {workflow.id},
                             !.t.workflows[S.t.i] = stamp(w1, S.clock),
                             !.t.seen = @ \cup {workflow.id},
                             !.t.computed = @ \cup {workflow.id},
                             !.log = Append(@, <<"computed", workflow.id>>)]
         IN IF w1.schedule.nextRun # NoTime /\ w1.schedule.nextRun <= S.t.now
            THEN [S1 EXCEPT !.t.invoked = @ \cup {workflow.id},
                            !.log = Append(@, <<"run", workflow.id>>)]
            ELSE checkLoop([S1 EXCEPT !.t.i = @ + 1])
    ELSE IF workflow.schedule.nextRun <= S.t.now
    THEN [S EXCEPT !.t.invoked = @ \cup {workflow.id}, !.t.seen = @ \cup {workflow.id},
                   !.log = Append(@, <<"run", workflow.id>>)]
    ELSE checkLoop([S EXCEPT !.t.i = @ + 1, !.t.seen = @ \cup {workflow.id}])
checkLoop(S) ==
  IF S.t.i > Len(S.t.workflows) THEN [S EXCEPT !.ended = TRUE]
  ELSE
    LET workflow == S.t.workflows[S.t.i] IN
    IF ~(workflow.schedule.defined /\ workflow.schedule.enabled) \/ ~workflow.enabled
    THEN checkLoop([S EXCEPT !.t.i = @ + 1, !.t.seen = @ \cup {workflow.id}])
    ELSE IF workflow.schedule.nextRun = NoTime
    THEN LET w1 == [workflow EXCEPT
                      !.schedule.nextRun = calculateNextRun(workflow, S.clock, S.clock)]
         IN checkLoop([S EXCEPT !.st = saveWorkflow(S.st, w1, S.clock),
                                !.written = @ \cup {workflow.id},
                                !.t.wrote = @ \cup {workflow.id},
                                !.t.workflows[S.t.i] = stamp(w1, S.clock),
                                !.t.i = @ + 1, !.t.seen = @ \cup {workflow.id},
                                !.t.computed = @ \cup {workflow.id},
                                !.log = Append(@, <<"computed", workflow.id>>)])
    ELSE IF workflow.schedule.nextRun <= S.t.now
    THEN [S EXCEPT !.t.invoked = @ \cup {workflow.id}, !.t.seen = @ \cup {workflow.id},
                   !.log = Append(@, <<"run", workflow.id>>)]
    ELSE checkLoop([S EXCEPT !.t.i = @ + 1, !.t.seen = @ \cup {workflow.id}])

\* the state a handler of the scheduler works on
Work(t) ==
  [st |-> store, t |-> t, clock |-> clock, ended |-> FALSE, crashed |-> FALSE,
   written |-> {}, log |-> <<>>]

\* checkSchedules() from its start                        part_000:65-71
checkSchedules(S) ==
  IF callbacks = NoCallbacks THEN [S EXCEPT !.ended = TRUE] ELSE checkLoop(S)

\* after `await callbacks.onWorkflowRun(workflow)` returned   part_000:88-93
runSucceededStaleNextRun(S) ==
  LET workflow == S.t.workflows[S.t.i]
      w1 == [workflow EXCEPT !.schedule.lastRun = S.t.now]
      w2 == [w1 EXCEPT !.schedule.nextRun = calculateNextRun(workflow, S.clock, S.clock)]
      S1 == [S EXCEPT !.st = saveWorkflow(S.st, w2, S.clock),
                      !.written = @ \cup {workflow.id},
                      !.t.wrote = @ \cup {workflow.id},
                      !.t.workflows[S.t.i] = stamp(w2, S.clock)]
  IN \* callbacks.onLog of line 93, then of line 95: both throw when stop() cleared callbacks
     IF callbacks = NoCallbacks THEN [S1 EXCEPT !.ended = TRUE, !.crashed = TRUE]
     ELSE checkLoop([S1 EXCEPT !.t.i = @ + 1, !.log = Append(@, <<"done", workflow.id>>)])
runSucceededReloads(S) ==
  LET workflow == S.t.workflows[S.t.i]
      S1 == IF workflow.id \notin DOMAIN S.st THEN S
            ELSE LET w1 == [S.st[workflow.id] EXCEPT !.schedule.lastRun = S.t.now]
                     w2 == [w1 EXCEPT !.schedule.nextRun = calculateNextRun(w1, S.clock, S.clock)]
                 IN [S EXCEPT !.st = saveWorkflow(S.st, w2, S.clock),
                              !.written = @ \cup {workflow.id},
                              !.t.wrote = @ \cup {workflow.id},
                              !.t.workflows[S.t.i] = stamp(w2, S.clock)]
  IN IF callbacks = NoCallbacks THEN [S1 EXCEPT !.ended = TRUE, !.crashed = TRUE]
     ELSE checkLoop([S1 EXCEPT !.t.i = @ + 1, !.log = Append(@, <<"done", workflow.id>>)])
runSucceededStampsCompletion(S) ==
  LET workflow == S.t.workflows[S.t.i]
      w1 == [workflow EXCEPT !.schedule.lastRun = S.clock]
      w2 == [w1 EXCEPT !.schedule.nextRun = calculateNextRun(w1, S.clock, S.clock)]
      S1 == [S EXCEPT !.st = saveWorkflow(S.st, w2, S.clock),
                      !.written = @ \cup {workflow.id},
                      !.t.wrote = @ \cup {workflow.id},
                      !.t.workflows[S.t.i] = stamp(w2, S.clock)]
  IN IF callbacks = NoCallbacks THEN [S1 EXCEPT !.ended = TRUE, !.crashed = TRUE]
     ELSE checkLoop([S1 EXCEPT !.t.i = @ + 1, !.log = Append(@, <<"done", workflow.id>>)])
runSucceeded(S) ==
  LET workflow == S.t.workflows[S.t.i]
      w1 == [workflow EXCEPT !.schedule.lastRun = S.t.now]
      w2 == [w1 EXCEPT !.schedule.nextRun = calculateNextRun(w1, S.clock, S.clock)]
      S1 == [S EXCEPT !.st = saveWorkflow(S.st, w2, S.clock),
                      !.written = @ \cup {workflow.id},
                      !.t.wrote = @ \cup {workflow.id},
                      !.t.workflows[S.t.i] = stamp(w2, S.clock)]
  IN \* callbacks.onLog of line 93, then of line 95: both throw when stop() cleared callbacks
     IF callbacks = NoCallbacks THEN [S1 EXCEPT !.ended = TRUE, !.crashed = TRUE]
     ELSE checkLoop([S1 EXCEPT !.t.i = @ + 1, !.log = Append(@, <<"done", workflow.id>>)])

\* after `await callbacks.onWorkflowRun(workflow)` raised     part_000:94-96
\* callbacks.onLog of line 95 throws when stop() cleared callbacks
runRaisedLogsThroughLocal(S) ==
  LET S1 == [S EXCEPT !.t.raised = @ \cup {S.t.workflows[S.t.i].id}] IN
  checkLoop([S1 EXCEPT !.t.i = @ + 1,
                       !.log = Append(@, <<"error", S.t.workflows[S.t.i].id>>)])
runRaised(S) ==
  LET S1 == [S EXCEPT !.t.raised = @ \cup {S.t.workflows[S.t.i].id}] IN
  IF callbacks = NoCallbacks THEN [S1 EXCEPT !.ended = TRUE, !.crashed = TRUE]
  ELSE checkLoop([S1 EXCEPT !.t.i = @ + 1,
                            !.log = Append(@, <<"error", S.t.workflows[S.t.i].id>>)])

RECURSIVE startLoop(_)
\* the loop of startScheduler() that computes unset nextRuns  part_000:113-118
startLoop(S) ==
  IF S.t.i > Len(S.t.workflows) THEN S
  ELSE
    LET workflow == S.t.workflows[S.t.i] IN
    IF workflow.schedule.defined /\ workflow.schedule.enabled
       /\ workflow.schedule.nextRun = NoTime
    THEN LET w1 == [workflow EXCEPT
                      !.schedule.nextRun = calculateNextRun(workflow, S.clock, S.clock)]
         IN startLoop([S EXCEPT !.st = saveWorkflow(S.st, w1, S.clock),
                                !.written = @ \cup {workflow.id},
                                !.t.workflows[S.t.i] = stamp(w1, S.clock),
                                !.t.i = @ + 1])
    ELSE startLoop([S EXCEPT !.t.i = @ + 1])

\* a new activation of checkSchedules(), with what it loaded
NewTick(order) ==
  [id |-> sched.nTicks + 1, workflows |-> Loaded(store, order), now |-> clock, i |-> 1,
   seen |-> {},                         \* history: ids of the workflows it has passed
   invoked |-> {},                      \* history: ids it called onWorkflowRun for
   raised |-> {},                       \* history: ids whose run raised
   wrote |-> {},                        \* history: ids whose record it saved
   computed |-> {},                     \* history: ids it met with nextRun unset
   retryAtStart |-> sched.pendingRetry] \* history: sched.pendingRetry when it began

\* the persisted lastRun and nextRun of a record
RunTimes(workflow) == <<workflow.schedule.lastRun, workflow.schedule.nextRun>>

\* history: the workflows whose run raised in activation t and whose persisted
\* lastRun or nextRun in st differ from what t loaded
Changed(st, t) ==
  {id \in t.raised :
     \E i \in DOMAIN t.workflows :
       /\ t.workflows[i].id = id
       /\ id \notin DOMAIN st \/ RunTimes(st[id]) # RunTimes(t.workflows[i])}

\* history: the workflows activation t loaded with enabled and schedule.enabled
Eligible(t) ==
  {t.workflows[i].id : i \in {j \in DOMAIN t.workflows :
      /\ t.workflows[j].enabled
      /\ t.workflows[j].schedule.defined /\ t.workflows[j].schedule.enabled}}

\* the variables after a handler of the scheduler left S
Event(kind, tick, id) == [kind |-> kind, tick |-> tick, id |-> id]
Settle(S, pending, event) ==
  /\ store' = S.st
  /\ ticks' = IF S.ended
              THEN [id \in DOMAIN ticks \ {S.t.id} |-> ticks[id]]
              ELSE [id \in DOMAIN ticks \cup {S.t.id} |-> IF id = S.t.id THEN S.t ELSE ticks[id]]
  /\ sched' = [sched EXCEPT
       !.nTicks = IF S.t.id > @ THEN S.t.id ELSE @,
       !.pendingRetry = pending \ S.written,
       !.ended = IF S.ended
                 THEN @ \cup {[seen |-> S.t.seen, invoked |-> S.t.invoked,
                               retryAtStart |-> S.t.retryAtStart, crashed |-> S.crashed,
                               raised |-> S.t.raised, changed |-> Changed(S.st, S.t),
                               wrote |-> S.t.wrote, computed |-> S.t.computed,
                               eligible |-> Eligible(S.t)]}
                 ELSE @,
       !.log = S.log,          \* what the handler passed to onLog
       !.event = event]        \* which handler ran

\* the callback objects the host passes, one per call of startScheduler()
Callbacks == <<"cb1", "cb2", "cb3", "cb4">>

\* startScheduler(cb)                                    part_000:104-136
StartSchedulerKeepsTimer ==
  /\ sched.nStarts < MaxStarts
  /\ \E order \in loadWorkflows(store) :
       LET handle == sched.nStarts + 1
           S == startLoop(Work([id |-> 0, workflows |-> Loaded(store, order), i |-> 1]))
       IN /\ timers' = [h \in DOMAIN timers \cup {handle} |->
                          IF h = handle THEN clock + TickPeriod ELSE timers[h]]
          /\ schedulerInterval' = handle
          /\ callbacks' = Callbacks[handle]
          /\ store' = S.st
          /\ sched' = [sched EXCEPT !.nStarts = handle,
                                    !.pendingRetry = @ \ S.written,
                                    !.log = <<<<"started", "">>>>,
                                    !.event = Event("start", 0, ""),
                                    \* history: the timer this start cleared
                                    !.replaced = schedulerInterval]
  /\ UNCHANGED <<executor, client, zone, clock, ticks, probe>>
StartScheduler ==
  /\ sched.nStarts < MaxStarts
  /\ \E order \in loadWorkflows(store) :
       LET handle == sched.nStarts + 1
           S == startLoop(Work([id |-> 0, workflows |-> Loaded(store, order), i |-> 1]))
       IN /\ timers' = [h \in (DOMAIN timers \ {schedulerInterval}) \cup {handle} |->
                          IF h = handle THEN clock + TickPeriod ELSE timers[h]]
          /\ schedulerInterval' = handle
          /\ callbacks' = Callbacks[handle]
          /\ store' = S.st
          /\ sched' = [sched EXCEPT !.nStarts = handle,
                                    !.pendingRetry = @ \ S.written,
                                    !.log = <<<<"started", "">>>>,
                                    !.event = Event("start", 0, ""),
                                    \* history: the timer this start cleared
                                    !.replaced = schedulerInterval]
  /\ UNCHANGED <<executor, client, zone, clock, ticks, probe>>

\* stopScheduler()                                       part_000:141-147
StopScheduler ==
  /\ schedulerInterval # NoTimer \/ callbacks # NoCallbacks
  /\ timers' = [h \in DOMAIN timers \ {schedulerInterval} |-> timers[h]]
  /\ schedulerInterval' = NoTimer
  /\ callbacks' = NoCallbacks
  /\ UNCHANGED <<executor, client, zone, store, clock, ticks, sched, probe>>

\* time passes; a timer that is due fires first
TimePasses ==
  /\ clock < Clock0 + MaxHalfMinutes * HalfMinute
  /\ \A h \in DOMAIN timers : timers[h] > clock
  /\ clock' = clock + HalfMinute
  /\ UNCHANGED <<executor, client, zone, store, schedulerInterval, callbacks, timers, ticks, sched, probe>>

\* an armed timer fires and calls checkSchedules(), which runs up to the
\* await of a run or to its end                          part_000:121, 65-99
TimerFires ==
  /\ sched.nTicks < MaxTicks
  /\ \E h \in DOMAIN timers :
       /\ timers[h] <= clock
       /\ timers' = [timers EXCEPT ![h] = @ + TickPeriod]
  /\ \E order \in loadWorkflows(store) :
       Settle(checkSchedules(Work(NewTick(order))), sched.pendingRetry,
              Event("tick", sched.nTicks + 1, ""))
  /\ UNCHANGED <<executor, client, zone, clock, schedulerInterval, callbacks, probe>>

\* the run a tick awaits returns                         part_000:86-93
RunReturns ==
  /\ \E id \in DOMAIN ticks :
       Settle(runSucceeded(Work(ticks[id])), sched.pendingRetry,
              Event("returned", id, ticks[id].workflows[ticks[id].i].id))
  /\ UNCHANGED <<executor, client, zone, clock, schedulerInterval, callbacks, timers, probe>>

\* the run a tick awaits raises                          part_000:86, 94-96
RunRaises ==
  /\ \E id \in DOMAIN ticks :
       LET t == ticks[id]
           workflow == t.workflows[t.i]
           \* the record is as the tick loaded it: the run can be retried as it was
           same == workflow.id \in DOMAIN store /\ store[workflow.id] = workflow
       IN Settle(runRaised(Work(t)),
                 IF same THEN sched.pendingRetry \cup {workflow.id} ELSE sched.pendingRetry,
                 Event("raised", id, workflow.id))
  /\ UNCHANGED <<executor, client, zone, clock, schedulerInterval, callbacks, timers, probe>>

NextSched ==
  \/ StartScheduler
  \/ StopScheduler
  \/ TimePasses
  \/ TimerFires
  \/ RunReturns
  \/ RunRaises

\* the runs explored.  A workflow that cannot revisit a step is run with any
\* runner.  A workflow that can is run with the runners that settle by
\* prompt, and has one step, or two plain steps (no retries, failure ends).
Loops(w) == ~MissionMode(w) /\ Cyclic(w)
Plain(w) ==
  \/ Len(w.steps) = 1
  \/ \A i \in 1..Len(w.steps) : w.steps[i].retryCount = 0 /\ w.steps[i].onFailure = "end"
Uses(w, r) == \A i \in (Len(w.steps) + 1)..2 : r.table[PromptAt(i)] = "ok"
ExecInputs ==
  {<<w, AnyRunner>> : w \in {x \in Workflows : ~Loops(x) /\ (x.mission # "" => Plain(x))}}
    \cup {in \in {x \in Workflows : Loops(x) /\ Plain(x) /\ x.mission = ""} \X RunnerTables :
            Uses(in[1], in[2])}

\* the web client's page before it asked for the workflows
NoClient == [workflows |-> <<>>, saves |-> 0,
             deleted |-> {}]           \* history: the ids whose deletion the server confirmed

\* the scheduler before startScheduler(), with an empty store
IdleSched ==
  /\ store = <<>>
  /\ clock = Clock0
  /\ zone = StandardZone
  /\ schedulerInterval = NoTimer
  /\ callbacks = NoCallbacks
  /\ timers = <<>>
  /\ ticks = <<>>
  /\ sched = [nTicks |-> 0, nStarts |-> 0, pendingRetry |-> {}, ended |-> {}, log |-> <<>>,
              event |-> Event("none", 0, ""), replaced |-> NoTimer]
  /\ client = NoClient
NoProbe == [called |-> "no"]

InitExec ==
  /\ \E in \in ExecInputs : executor = [r \in {"main"} |-> NewExecutor(in[1], in[2])]
  /\ IdleSched
  /\ probe = NoProbe

Spec == InitExec /\ [][NextExec]_vars

\* the same with an Agent Runner whose every call settles and a timer whose
\* every back-off elapses; the host that called execute() may call abort()
SpecSettling ==
  /\ Spec
  /\ WF_vars(StepSettles) /\ WF_vars(MissionSettles) /\ WF_vars(BackoffElapses)

\* the records the store holds when the scheduler's behaviours begin
Schedules ==
  {NoSchedule}
    \cup [defined : {TRUE}, enabled : BOOLEAN, type : {"interval"}, intervalMinutes : {1},
          time : {<<>>}, dayOfWeek : {-1}, lastRun : {NoTime},
          nextRun : {NoTime, MsPerMinute}]
    \cup [defined : {TRUE}, enabled : {TRUE}, type : {"daily"}, intervalMinutes : {0},
          time : {DefaultTime}, dayOfWeek : {-1}, lastRun : {NoTime},
          nextRun : {NoTime, Clock0 + MsPerMinute}]
StoredWorkflows(id) ==
  [id : {id}, enabled : BOOLEAN, schedule : Schedules,
   updatedAt : {Clock0 - MsPerDay}]
Stores ==
  {[id \in {"a"} |-> a] : a \in StoredWorkflows("a")}
    \cup {[id \in {"a", "b"} |-> IF id = "a" THEN a ELSE b] :
            a \in StoredWorkflows("a"),
            b \in {w \in StoredWorkflows("b") : w.enabled /\ w.schedule.enabled
                                                  /\ w.schedule.nextRun # NoTime}}

InitSched ==
  /\ executor = <<>>
  /\ store \in Stores
  /\ clock = Clock0
  /\ zone = StandardZone
  /\ schedulerInterval = NoTimer
  /\ callbacks = NoCallbacks
  /\ timers = <<>>
  /\ ticks = <<>>
  /\ sched = [nTicks |-> 0, nStarts |-> 0, pendingRetry |-> {}, ended |-> {}, log |-> <<>>,
              event |-> Event("none", 0, ""), replaced |-> NoTimer]
  /\ client = NoClient
  /\ probe = NoProbe

SpecSched == InitSched /\ [][NextSched]_vars

(***************************************************************************)
(* The web client's workflow handlers next to the scheduler                *)
(*                        web-client.ts:1774-1779, 1812-1830, 1999-2016,   *)
(*                        2106-2117 (page), 2526-2544 (server)             *)
(***************************************************************************)
\* the id the server gives a workflow that arrives without one
FreshId == "n"
\* createNewWorkflow() of the page, with or without a schedule set in the editor
NewWorkflows ==
  {[id |-> "", enabled |-> TRUE, schedule |-> sc, updatedAt |-> NoTime] :
     sc \in {NoSchedule,
             [defined |-> TRUE, enabled |-> TRUE, type |-> "interval", intervalMinutes |-> 1,
              time |-> <<>>, dayOfWeek |-> -1, lastRun |-> NoTime, nextRun |-> NoTime]}}
\* editWorkflow(id): a deep clone of the page's copy; the editor may flip wfEnabled
Edited(workflow) == {workflow, [workflow EXCEPT !.enabled = ~@]}

\* the "getWorkflows" message and its "workflows" reply
GetWorkflows ==
  /\ client.workflows # store
  /\ client' = [client EXCEPT !.workflows = store]
  /\ UNCHANGED <<executor, store, clock, zone, schedulerInterval, callbacks, timers, ticks,
                 sched, probe>>

\* saveCurrentWorkflow() of the page, the server's "saveWorkflow" handler, and
\* the page's reload of the list on "workflowSaved"
SaveWorkflowMessage ==
  /\ client.saves < MaxSaves
  /\ \E wfData \in NewWorkflows
                     \cup UNION {Edited(client.workflows[id]) : id \in DOMAIN client.workflows} :
       LET withId == IF wfData.id = "" THEN [wfData EXCEPT !.id = FreshId] ELSE wfData
           saved == saveWorkflow(store, [withId EXCEPT !.updatedAt = clock], clock)
       IN /\ wfData.id = "" => FreshId \notin DOMAIN store
          /\ store' = saved
          /\ client' = [client EXCEPT !.workflows = saved, !.saves = @ + 1]
  /\ UNCHANGED <<executor, clock, zone, schedulerInterval, callbacks, timers, ticks, sched, probe>>

NextWeb ==
  \/ NextSched
  \/ GetWorkflows
  \/ SaveWorkflowMessage

InitWeb ==
  /\ InitSched
  /\ DOMAIN store = {"a"}
  /\ store["a"].enabled /\ store["a"].schedule.enabled

SpecWeb == InitWeb /\ [][NextWeb]_vars

\* the host has called startScheduler(cb) once, on an empty store or on one
\* workflow (whose nextRun is then set if its schedule is enabled); workflows
\* arrive and change through the page's editor while the timer runs
RunningStores ==
  {<<>>} \cup {st \in Stores : /\ DOMAIN st = {"a"}
                               /\ st["a"].schedule.enabled => st["a"].schedule.nextRun # NoTime}
InitRunning ==
  /\ executor = <<>>
  /\ store \in RunningStores
  /\ clock = Clock0
  /\ zone = StandardZone
  /\ schedulerInterval = 1
  /\ callbacks = Callbacks[1]
  /\ timers = [h \in {1} |-> Clock0 + TickPeriod]
  /\ ticks = <<>>
  /\ sched = [nTicks |-> 0, nStarts |-> 1, pendingRetry |-> {}, ended |-> {},
              log |-> <<<<"started", "">>>>, event |-> Event("start", 0, ""),
              replaced |-> NoTimer]
  /\ client = NoClient
  /\ probe = NoProbe

NextRunning ==
  \/ TimePasses
  \/ TimerFires
  \/ RunReturns
  \/ RunRaises
  \/ GetWorkflows
  \/ SaveWorkflowMessage

SpecRunning == InitRunning /\ [][NextRunning]_vars

\* the scheduler over one enabled interval workflow that has run before or
\* never, with intervalMinutes below, at and above the 0 that stands for an
\* absent value; the host starts and stops the scheduler
IntervalSchedules ==
  [defined : {TRUE}, enabled : {TRUE}, type : {"interval"}, intervalMinutes : {-1, 0, 1, 2},
   time : {<<>>}, dayOfWeek : {-1}, lastRun : {NoTime, Clock0 - MsPerMinute},
   nextRun : {NoTime}]
IntervalStores ==
  {[id \in {"a"} |-> a] :
     a \in [id : {"a"}, enabled : {TRUE}, schedule : IntervalSchedules,
            updatedAt : {Clock0 - MsPerDay}]}
InitInterval ==
  /\ executor = <<>>
  /\ store \in IntervalStores
  /\ clock = Clock0
  /\ zone = StandardZone
  /\ schedulerInterval = NoTimer
  /\ callbacks = NoCallbacks
  /\ timers = <<>>
  /\ ticks = <<>>
  /\ sched = [nTicks |-> 0, nStarts |-> 0, pendingRetry |-> {}, ended |-> {}, log |-> <<>>,
              event |-> Event("none", 0, ""), replaced |-> NoTimer]
  /\ client = NoClient
  /\ probe = NoProbe

SpecInterval == InitInterval /\ [][NextSched]_vars

(***************************************************************************)
(* calculateNextRun() and getNextRunTime() on their own: one call on an    *)
(* input drawn from sample schedules, instants and zones.                  *)
(***************************************************************************)
Text(a, b, c, d) == <<a, b, ":", c, d>>
SampleTimes == {<<>>, Text("0", "0", "0", "0"), Text("0", "1", "3", "0"),
                Text("0", "2", "3", "0"), Text("0", "9", "0", "0"), Text("2", "3", "5", "9")}
SampleSchedules ==
  {NoSchedule}
    \cup [defined : {TRUE}, enabled : BOOLEAN, type : {"daily"}, intervalMinutes : {0},
          time : SampleTimes, dayOfWeek : {-1}, lastRun : {NoTime}, nextRun : {NoTime}]
    \cup [defined : {TRUE}, enabled : {TRUE}, type : {"weekly"}, intervalMinutes : {0},
          time : {<<>>, Text("0", "1", "3", "0"), Text("0", "2", "3", "0"),
                  Text("2", "3", "5", "9")},
          dayOfWeek : {-1, 0, 2, 6},
          lastRun : {NoTime}, nextRun : {NoTime}]
    \cup [defined : {TRUE}, enabled : {TRUE}, type : {"interval"}, intervalMinutes : {0, 1, 30},
          time : {<<>>}, dayOfWeek : {-1}, lastRun : {NoTime, Clock0}, nextRun : {NoTime}]
    \cup [defined : {TRUE}, enabled : {TRUE}, type : {"monthly"}, intervalMinutes : {0},
          time : {<<>>}, dayOfWeek : {-1}, lastRun : {NoTime}, nextRun : {NoTime}]
    \cup [defined : {TRUE}, enabled : {FALSE}, type : {"weekly", "interval", "monthly"},
          intervalMinutes : {30}, time : {Text("2", "3", "5", "9")}, dayOfWeek : {2},
          lastRun : {Clock0}, nextRun : {NoTime}]
SampleWorkflows ==
  [id : {"a"}, enabled : {TRUE}, schedule : SampleSchedules, updatedAt : {Clock0 - MsPerDay}]
\* instants of Monday and Tuesday, on the standard-time clock
SampleInstants ==
  {day * MsPerDay + hour * MsPerHour + halfMinutes * HalfMinute :
     day \in {1, 2}, hour \in {0, 1, 8, 9, 23}, halfMinutes \in {0, 1, 60, 118, 119}}

InitCalc ==
  /\ executor = <<>>
  /\ store = <<>>
  /\ clock \in SampleInstants
  /\ zone \in Zones
  /\ schedulerInterval = NoTimer
  /\ callbacks = NoCallbacks
  /\ timers = <<>>
  /\ ticks = <<>>
  /\ sched = [nTicks |-> 0, nStarts |-> 0, pendingRetry |-> {}, ended |-> {}, log |-> <<>>,
              event |-> Event("none", 0, ""), replaced |-> NoTimer]
  /\ client = NoClient
  /\ \E workflow \in SampleWorkflows :
       probe = [called |-> "no", workflow |-> workflow, now |-> clock, result |-> NoTime]

\* a call of calculateNextRun(workflow): Date.now() reads the clock, and the
\* later new Date() reads it again, by then possibly half a minute on
CalculateNextRun ==
  /\ probe.called = "no"
  /\ \E today \in {clock, clock + HalfMinute} :
       /\ clock' = today
       /\ probe' = [probe EXCEPT !.called = "calculateNextRun",
                                 !.result = calculateNextRun(probe.workflow, clock, today)]
  /\ UNCHANGED <<executor, client, store, zone, schedulerInterval, callbacks, timers, ticks, sched>>

\* a call of getNextRunTime(workflow)
GetNextRunTime ==
  /\ probe.called = "no"
  /\ \E today \in {clock, clock + HalfMinute} :
       /\ clock' = today
       /\ probe' = [probe EXCEPT !.called = "getNextRunTime",
                                 !.result = getNextRunTime(probe.workflow, clock, today)]
  /\ UNCHANGED <<executor, client, store, zone, schedulerInterval, callbacks, timers, ticks, sched>>

NextCalc ==
  \/ CalculateNextRun
  \/ GetNextRunTime

SpecCalc == InitCalc /\ [][NextCalc]_vars

(***************************************************************************)
(* exportWorkflow() and importWorkflow()        executor.ts:322-324, 432-459 *)
(* A JSON text is the sequence of its members <<key, value>>; a member     *)
(* whose value is undefined is not written, a key not found reads as       *)
(* undefined.  An optional field is <<>> (undefined) or <<value>>.         *)
(***************************************************************************)
None    == <<>>
Some(x) == <<x>>

\* the member of an optional field: nothing when undefined
Member(key, option) == IF option = None THEN <<>> ELSE <<<<key, option[1]>>>>
\* whether the text has the key, and the value of its last such member
Has(text, key) == \E i \in DOMAIN text : text[i][1] = key
Value(text, key) ==
  text[CHOOSE i \in DOMAIN text :
         text[i][1] = key /\ \A j \in DOMAIN text : text[j][1] = key => j <= i][2]
\* an optional field read back
Optional(text, key) == IF Has(text, key) THEN Some(Value(text, key)) ELSE None

\* JSON.stringify / JSON.parse of workflow.schedule (Workflow.schedule: absent
\* fields are intervalMinutes 0, time <<>>, dayOfWeek -1, lastRun and nextRun NoTime)
stringifySchedule(schedule) ==
  <<<<"enabled", schedule.enabled>>, <<"type", schedule.type>>>>
    \o Member("intervalMinutes",
              IF schedule.intervalMinutes = 0 THEN None ELSE Some(schedule.intervalMinutes))
    \o Member("time", IF schedule.time = <<>> THEN None ELSE Some(schedule.time))
    \o Member("dayOfWeek", IF schedule.dayOfWeek = -1 THEN None ELSE Some(schedule.dayOfWeek))
    \o Member("lastRun", IF schedule.lastRun = NoTime THEN None ELSE Some(schedule.lastRun))
    \o Member("nextRun", IF schedule.nextRun = NoTime THEN None ELSE Some(schedule.nextRun))
parseSchedule(text) ==
  [defined |-> TRUE, enabled |-> Value(text, "enabled"), type |-> Value(text, "type"),
   intervalMinutes |-> IF Has(text, "intervalMinutes") THEN Value(text, "intervalMinutes") ELSE 0,
   time |-> IF Has(text, "time") THEN Value(text, "time") ELSE <<>>,
   dayOfWeek |-> IF Has(text, "dayOfWeek") THEN Value(text, "dayOfWeek") ELSE -1,
   lastRun |-> IF Has(text, "lastRun") THEN Value(text, "lastRun") ELSE NoTime,
   nextRun |-> IF Has(text, "nextRun") THEN Value(text, "nextRun") ELSE NoTime]

\* exportWorkflow(workflow): JSON.stringify(workflow, null, 2)   executor.ts:432-434
exportWorkflow(workflow) ==
  <<<<"id", workflow.id>>, <<"name", workflow.name>>>>
    \o Member("description", workflow.description)
    \o <<<<"enabled", workflow.enabled>>>>
    \o Member("mission", workflow.mission)
    \o <<<<"steps", workflow.steps>>, <<"createdAt", workflow.createdAt>>,
         <<"updatedAt", workflow.updatedAt>>>>
    \o (IF workflow.schedule.defined
        THEN <<<<"schedule", stringifySchedule(workflow.schedule)>>>> ELSE <<>>)

\* JSON.parse(jsonStr) as Workflow, of a text with name and steps   executor.ts:441
parseWorkflow(text) ==
  [id |-> Value(text, "id"), name |-> Value(text, "name"),
   description |-> Optional(text, "description"), enabled |-> Value(text, "enabled"),
   mission |-> Optional(text, "mission"), steps |-> Value(text, "steps"),
   createdAt |-> Value(text, "createdAt"), updatedAt |-> Value(text, "updatedAt"),
   schedule |-> IF Has(text, "schedule") THEN parseSchedule(Value(text, "schedule"))
                ELSE NoSchedule]

\* generateWorkflowId(): `wf-${Date.now()}-${random}`              executor.ts:322-324
generateWorkflowId(now, random) == <<"wf", now, random>>
\* the values Math.random().toString(36).substr(2, 9) takes in the model
Randoms == {"r1", "r2"}

\* importWorkflow(jsonStr)                                        executor.ts:439-459
\* the result is [accepted, workflow]; a rejected text returns null
importWorkflowKeepsCreatedAt(text, now, random) ==
  IF ~Has(text, "name") \/ ~Has(text, "steps") THEN [accepted |-> FALSE, workflow |-> None]
  ELSE IF Value(text, "name") = "" THEN [accepted |-> FALSE, workflow |-> None]
  ELSE [accepted |-> TRUE,
        workflow |-> Some([parseWorkflow(text) EXCEPT !.id = generateWorkflowId(now, random),
                                                      !.updatedAt = now])]
importWorkflow(text, now, random) ==
  IF ~Has(text, "name") \/ ~Has(text, "steps") THEN [accepted |-> FALSE, workflow |-> None]
  ELSE IF Value(text, "name") = "" THEN [accepted |-> FALSE, workflow |-> None]
  ELSE [accepted |-> TRUE,
        workflow |-> Some([parseWorkflow(text) EXCEPT !.id = generateWorkflowId(now, random),
                                                      !.createdAt = now, !.updatedAt = now])]

\* the workflows exported: made earlier by createWorkflow or the editor
PortSteps ==
  {<<>>,
   <<[id |-> "s1", prompt |-> "p1", onSuccess |-> "next", onFailure |-> "retry",
      retryCount |-> 1]>>}
PortSchedules ==
  {NoSchedule,
   [defined |-> TRUE, enabled |-> TRUE, type |-> "daily", intervalMinutes |-> 0,
    time |-> DefaultTime, dayOfWeek |-> -1, lastRun |-> NoTime, nextRun |-> NoTime],
   [defined |-> TRUE, enabled |-> FALSE, type |-> "interval", intervalMinutes |-> 30,
    time |-> <<>>, dayOfWeek |-> -1, lastRun |-> Clock0 - MsPerHour,
    nextRun |-> Clock0 - MsPerHour + 30 * MsPerMinute]}
PortWorkflows ==
  [id : {generateWorkflowId(Clock0 - MsPerDay, r) : r \in Randoms},
   name : {"", "wf"}, description : {None, Some(""), Some("d")}, enabled : BOOLEAN,
   mission : {None, Some("go")}, steps : PortSteps,
   createdAt : {Clock0 - MsPerDay}, updatedAt : {Clock0 - MsPerDay, Clock0 - MsPerHour},
   schedule : PortSchedules]

InitPort ==
  /\ executor = <<>>
  /\ IdleSched
  /\ \E workflow \in PortWorkflows :
       probe = [called |-> "no", workflow |-> workflow, text |-> <<>>,
                result |-> [accepted |-> FALSE, workflow |-> None]]

\* a call of exportWorkflow(workflow)
ExportWorkflow ==
  /\ probe.called = "no"
  /\ probe' = [probe EXCEPT !.called = "exportWorkflow",
                            !.text = exportWorkflow(probe.workflow)]
  /\ UNCHANGED <<executor, schedVars, client>>

\* a call of importWorkflow(text) on the exported text, then or later
ImportWorkflow ==
  /\ probe.called = "exportWorkflow"
  /\ \E now \in {clock, clock + HalfMinute}, random \in Randoms :
       /\ clock' = now
       /\ probe' = [probe EXCEPT !.called = "importWorkflow",
                                 !.result = importWorkflow(probe.text, now, random)]
  /\ UNCHANGED <<executor, client, store, zone, schedulerInterval, callbacks, timers, ticks, sched>>

NextPort ==
  \/ ExportWorkflow
  \/ ImportWorkflow

SpecPort == InitPort /\ [][NextPort]_vars

(***************************************************************************)
(* The Workflow Store on its directory            executor.ts:301-397      *)
(* A file of the directory is named by the id of its workflow and holds a  *)
(* JSON text.  A text with a member that has no key was cut short while it *)
(* was written or was damaged since: JSON.parse throws on it.              *)
(***************************************************************************)
Parses(text) == \A i \in DOMAIN text : text[i][1] # ""

\* saveWorkflow(workflow) on the directory: stamps updatedAt, writes
\* JSON.stringify(workflow, null, 2) to the file of workflow.id   executor.ts:371-378
saveWorkflowFileKeepsUpdatedAt(dir, workflow, now) ==
  [id \in DOMAIN dir \cup {workflow.id} |->
     IF id = workflow.id THEN exportWorkflow(workflow) ELSE dir[id]]
saveWorkflowFile(dir, workflow, now) ==
  [id \in DOMAIN dir \cup {workflow.id} |->
     IF id = workflow.id THEN exportWorkflow(stamp(workflow, now)) ELSE dir[id]]

\* loadWorkflows() on the directory: the results it can return.  The files
\* come in the directory's order, which is any order; a file that does not
\* parse is reported to the console and skipped; the sort keeps the order of
\* records with equal updatedAt                                  executor.ts:329-347
loadWorkflowsStopsAtDamaged(dir) ==
  LET files == {id \in DOMAIN dir : Parses(dir[id])}
      orders == {order \in [1..Cardinality(files) -> files] :
                   /\ \A i, j \in DOMAIN order : i # j => order[i] # order[j]
                   /\ \A i, j \in DOMAIN order : i < j =>
                        parseWorkflow(dir[order[i]]).updatedAt
                          >= parseWorkflow(dir[order[j]]).updatedAt}
  IN IF files # DOMAIN dir THEN {[raised |-> TRUE, workflows |-> <<>>]}
     ELSE {[raised |-> FALSE,
            workflows |-> [i \in DOMAIN order |-> parseWorkflow(dir[order[i]])]] :
             order \in orders}
loadWorkflowsFiles(dir) ==
  LET files == {id \in DOMAIN dir : Parses(dir[id])}
      orders == {order \in [1..Cardinality(files) -> files] :
                   /\ \A i, j \in DOMAIN order : i # j => order[i] # order[j]
                   /\ \A i, j \in DOMAIN order : i < j =>
                        parseWorkflow(dir[order[i]]).updatedAt
                          >= parseWorkflow(dir[order[j]]).updatedAt}
  IN {[raised |-> FALSE,
       workflows |-> [i \in DOMAIN order |-> parseWorkflow(dir[order[i]])]] :
        order \in orders}

\* loadWorkflow(id): null (None) when the file is missing or does not parse
\*                                                              executor.ts:352-366
loadWorkflow(dir, id) ==
  IF id \notin DOMAIN dir THEN None
  ELSE IF ~Parses(dir[id]) THEN None
  ELSE Some(parseWorkflow(dir[id]))

\* deleteWorkflow(id): the directory after it, and what it returns
\*                                                              executor.ts:383-397
deleteWorkflow(dir, id) ==
  IF id \notin DOMAIN dir THEN [dir |-> dir, result |-> FALSE]
  ELSE [dir |-> [x \in DOMAIN dir \ {id} |-> dir[x]], result |-> TRUE]

\* the workflows the callers of the store hold, and the directories the
\* behaviours begin with: each file missing, damaged, or saved earlier
FileWorkflows(id) ==
  [id : {id}, name : {"wf"}, description : {None, Some("d")}, enabled : {TRUE},
   mission : {None}, steps : {<<>>}, createdAt : {Clock0 - MsPerDay},
   updatedAt : {IF id = "a" THEN Clock0 - MsPerDay ELSE Clock0 - MsPerHour},
   schedule : IF id = "a" THEN {PS \in PortSchedules : PS.type = "interval" \/ ~PS.defined}
              ELSE {NoSchedule}]
FileIds == {"a", "b", "c"}
Contents(id) ==
  {<<<<"id", id>>, <<"", "">>>>}
    \cup (IF id = "c" THEN {} ELSE {exportWorkflow(w) : w \in FileWorkflows(id)})
Directories ==
  UNION {{dir \in [ids -> UNION {Contents(id) : id \in ids}] :
            \A id \in ids : dir[id] \in Contents(id)} : ids \in SUBSET FileIds}
NoCall == [called |-> "no", id |-> "", workflow |-> None, found |-> None, deleted |-> FALSE,
           loaded |-> [raised |-> FALSE, workflows |-> <<>>]]

InitStore ==
  /\ executor = <<>>
  /\ store \in Directories
  /\ clock = Clock0
  /\ zone = StandardZone
  /\ schedulerInterval = NoTimer
  /\ callbacks = NoCallbacks
  /\ timers = <<>>
  /\ ticks = <<>>
  /\ sched = [nTicks |-> 0, nStarts |-> 0, pendingRetry |-> {}, ended |-> {}, log |-> <<>>,
              event |-> Event("none", 0, ""), replaced |-> NoTimer]
  /\ client = NoClient
  /\ probe = NoCall

\* a call of saveWorkflow(workflow)
SaveWorkflow ==
  /\ \E workflow \in FileWorkflows("a") \cup FileWorkflows("b") :
       /\ store' = saveWorkflowFile(store, workflow, clock)
       /\ probe' = [NoCall EXCEPT !.called = "saveWorkflow", !.id = workflow.id,
                                   !.workflow = Some(workflow)]
  /\ UNCHANGED <<executor, client, clock, zone, schedulerInterval, callbacks, timers, ticks, sched>>

\* a call of loadWorkflows()
LoadWorkflows ==
  /\ \E result \in loadWorkflowsFiles(store) :
       probe' = [NoCall EXCEPT !.called = "loadWorkflows", !.loaded = result]
  /\ UNCHANGED <<executor, client, store, clock, zone, schedulerInterval, callbacks, timers,
                 ticks, sched>>

\* a call of loadWorkflow(id)
LoadWorkflow ==
  /\ \E id \in FileIds :
       probe' = [NoCall EXCEPT !.called = "loadWorkflow", !.id = id,
                                !.found = loadWorkflow(store, id)]
  /\ UNCHANGED <<executor, client, store, clock, zone, schedulerInterval, callbacks, timers,
                 ticks, sched>>

\* a call of deleteWorkflow(id)
DeleteWorkflow ==
  /\ \E id \in FileIds :
       /\ store' = deleteWorkflow(store, id).dir
       /\ probe' = [NoCall EXCEPT !.called = "deleteWorkflow", !.id = id,
                                   !.deleted = deleteWorkflow(store, id).result]
  /\ UNCHANGED <<executor, client, clock, zone, schedulerInterval, callbacks, timers, ticks, sched>>

NextStore ==
  \/ SaveWorkflow
  \/ LoadWorkflows
  \/ LoadWorkflow
  \/ DeleteWorkflow
  \/ TimePasses

SpecStore == InitStore /\ [][NextStore]_vars

\* deleteWorkflowConfirm(id) of the page on a workflow of its list, the
\* server's "deleteWorkflow" handler, and the page's reload of the list on
\* "workflowDeleted"                       web-client.ts:2091-2095, 2546-2554, 2122-2125
DeleteWorkflowMessage ==
  /\ \E id \in DOMAIN client.workflows :
       LET deleted == deleteWorkflow(store, id) IN
       /\ store' = deleted.dir
       /\ client' = IF deleted.result
                    THEN [client EXCEPT !.workflows = deleted.dir, !.deleted = @ \cup {id}]
                    ELSE client
  /\ UNCHANGED <<executor, clock, zone, schedulerInterval, callbacks, timers, ticks, sched, probe>>

\* the running scheduler next to a page that creates, edits and deletes workflows
NextPage ==
  \/ NextRunning
  \/ DeleteWorkflowMessage

SpecPage == InitRunning /\ [][NextPage]_vars

(***************************************************************************)
(* The same run of a workflow and of its copy with every onFailure="retry" *)
(* replaced by "end"                                                       *)
(***************************************************************************)
RetryToEnd(w) ==
  [w EXCEPT !.steps = [i \in 1..Len(w.steps) |->
     IF w.steps[i].onFailure = "retry"
     THEN [w.steps[i] EXCEPT !.onFailure = "end"] ELSE w.steps[i]]]
HasRetryRef(w) == \E i \in 1..Len(w.steps) : w.steps[i].onFailure = "retry"

InitTwin ==
  \E in \in {x \in ExecInputs : x[1].mission = "" /\ HasRetryRef(x[1])} :
    executor = [r \in {"main", "twin"} |->
                  IF r = "main" THEN NewExecutor(in[1], in[2])
                  ELSE NewExecutor(RetryToEnd(in[1]), in[2])]
  /\ IdleSched
  /\ probe = NoProbe

NextTwin ==
  \/ Execute
  \/ Abort
  \/ RunnerProgress
  \/ StepSettles
  \/ BackoffElapses

SpecTwin == InitTwin /\ [][NextTwin]_vars

(***************************************************************************)
(* Claims                                                                  *)
(***************************************************************************)
Done == Main.pc = "done"
StepMode == ~MissionMode(Main.workflow) /\ Len(Main.workflow.steps) > 0
NSteps == Len(Main.workflow.steps)
StepIds == {"s1", "s2"}
StepPrompts == {"p1", "p2"}
\* abort() was called before the run ended
AbortObserved == Main.aborted /\ Main.abortPc # "done"
\* the log entries of a step's attempt that succeeded, and of the summary
Completed(i) == [stepId |-> StepIdAt(i), type |-> "success", message |-> "completed"]
HasLog(entry) == \E k \in 1..Len(Main.logs) : Main.logs[k] = entry

\* C3: the stepsExecuted of the result of a step-mode run never exceeds 50.
C3_StepsExecutedAtMost50 ==
  (Done /\ StepMode) => Main.result.stepsExecuted <= MaxStepExecutions

\* C4: with no abort, a walk that would go past 50 visits runs the Agent
\* Runner for exactly 50 step visits and then returns success=false with the
\* limit error; no run makes more than 50 visits, and a run that hit the cap
\* never returns success=true.
C4_CapAtFiftyVisits ==
  /\ Main.visitsRun <= MaxStepExecutions
  /\ (Done /\ StepMode /\ ~Main.aborted) =>
       /\ (Main.stepsExecuted > MaxStepExecutions) <=> (Main.result.error = ErrLimit)
       /\ (Main.result.error = ErrLimit) =>
            Main.visitsRun = MaxStepExecutions /\ ~Main.result.success
  /\ (Done /\ Main.stepsExecuted > MaxStepExecutions) => ~Main.result.success
C4_Witness ==
  /\ Done /\ StepMode /\ ~Main.aborted
  /\ Main.result.error = ErrLimit /\ ~Main.result.success
  /\ Main.visitsRun = MaxStepExecutions
  /\ Len(Main.calls) = MaxStepExecutions
  /\ NSteps = 2 /\ Main.ctx.table = [p \in StepPrompts |-> "ok"]

\* what C5 says of a run: no step's prompt reaches the Agent Runner, and no
\* step id is in the logs or in lastStepId
NoStepTouched ==
  /\ \A k \in 1..Len(Main.calls) : Main.calls[k] \notin StepPrompts
  /\ \A k \in 1..Len(Main.logs) : Main.logs[k].stepId \notin StepIds
  /\ Main.lastStepId \notin StepIds /\ Main.result.lastStepId \notin StepIds

\* C5 (as stated): a workflow with a non-empty mission runs in mission mode,
\* whatever its steps.
C5_NonEmptyMissionIgnoresSteps ==
  Main.workflow.mission # "" => NoStepTouched
\* C5 (amended): a workflow whose mission is non-empty after trimming
\* white space runs in mission mode, whatever its steps.
C5_NonBlankMissionIgnoresSteps ==
  trim(Main.workflow.mission) # "" => NoStepTouched
C5_Witness ==
  /\ Done /\ trim(Main.workflow.mission) # "" /\ NSteps = 2
  /\ Main.calls = <<Main.workflow.mission>>
  /\ Main.result.lastStepId = "mission"

\* C6: a workflow and its copy with onFailure="retry" replaced by "end",
\* given the same runner outcomes and the same abort, are at the same point
\* at every moment, make the same Agent Runner calls and return the same
\* success, lastStepId, stepsExecuted (and error).
C6_RetryBehavesAsEnd ==
  /\ executor["twin"].pc = Main.pc
  /\ executor["twin"].calls = Main.calls
  /\ executor["twin"].result = Main.result
C6_Witness ==
  /\ Done /\ NSteps = 1 /\ ~Main.aborted
  /\ Main.workflow.steps[1].onFailure = "retry"
  /\ Main.workflow.steps[1].retryCount = MaxRetry
  /\ Len(Main.calls) = MaxRetry + 1
  /\ Main.result.error = ErrStepFail
  /\ executor["twin"].workflow.steps[1].onFailure = "end"

\* findNextStep on "next": the following step, none after the last one
NextResolves(w) ==
  \A i \in 1..Len(w.steps) : \A ok \in BOOLEAN :
    (IF ok THEN w.steps[i].onSuccess ELSE w.steps[i].onFailure) = "next" =>
      findNextStep(w, i, ok) = IF i = Len(w.steps) THEN NoStep ELSE i + 1
\* in the log, a success of step i with onSuccess="next" is followed by the
\* summary when i is last, and by the following step (or by the summary of
\* an aborted run) when it is not
NextInLog ==
  \A k \in 1..Len(Main.logs) : \A i \in 1..NSteps :
    (Main.logs[k] = Completed(i) /\ Main.workflow.steps[i].onSuccess = "next") =>
      /\ k < Len(Main.logs)
      /\ IF i = NSteps
         THEN Main.logs[k + 1].stepId = "workflow" /\ Done
         ELSE \/ Main.logs[k + 1].stepId = StepIdAt(i + 1)
              \/ Main.logs[k + 1].stepId = "workflow" /\ AbortObserved
\* the run ended right after its last step, which has onSuccess="next", succeeded
EndedOnLastNext ==
  /\ Done /\ StepMode /\ Len(Main.logs) >= 2
  /\ Main.logs[Len(Main.logs) - 1] = Completed(NSteps)
  /\ Main.workflow.steps[NSteps].onSuccess = "next"

\* C7 (as stated): when the last step has onSuccess="next" and succeeds the
\* run returns success=true with lastStepId that step's id; "next" on a
\* non-last step resolves to the following step.
C7_LastNextEndsSuccessfully ==
  /\ NextResolves(Main.workflow)
  /\ NextInLog
  /\ EndedOnLastNext =>
       Main.result.success /\ Main.result.lastStepId = StepIdAt(NSteps)
\* C7 (amended): the same, the result being success=true provided abort()
\* was not called before the run ended (an aborted run returns the abort
\* error; lastStepId is that step's id either way).
C7_LastNextEndsSuccessfullyUnlessAborted ==
  /\ NextResolves(Main.workflow)
  /\ NextInLog
  /\ EndedOnLastNext =>
       /\ Main.result.lastStepId = StepIdAt(NSteps)
       /\ Main.result.success <=> ~AbortObserved
C7_Witness ==
  /\ EndedOnLastNext /\ NSteps = 2 /\ ~Main.aborted
  /\ Main.workflow.steps[1].onSuccess = "next"
  /\ HasLog(Completed(1))
  /\ Main.result.success /\ Main.result.lastStepId = "s2"

\* C8: in a workflow of several steps, abort() called during the first step
\* visit (after the first step started, before a second step's attempt)
\* makes execute() return success=false with the abort error, with no Agent
\* Runner call for another step and stepsExecuted = 1.
C8_AbortBeforeSecondStep ==
  (Done /\ StepMode /\ NSteps >= 2 /\ Main.abortedAt = 1 /\ Main.abortPc # "done") =>
    /\ ~Main.result.success
    /\ Main.result.error = ErrAbort
    /\ Main.result.stepsExecuted = 1
    /\ \A k \in 1..Len(Main.calls) : Main.calls[k] = PromptAt(1)
C8_Witness ==
  /\ Done /\ StepMode /\ NSteps = 2
  /\ Main.abortedAt = 1 /\ Main.abortPc = "step_await"
  /\ Main.workflow.steps[1].onSuccess = "next"
  /\ HasLog(Completed(1))
  /\ Main.result.error = ErrAbort /\ Main.result.stepsExecuted = 1

\* C9: in step mode, when the aborted flag is set as the walk ends, the
\* result is success=false with the abort error, whether or not the last
\* step succeeded and whatever error the walk had recorded.
C9_AbortOverrides ==
  (Done /\ StepMode /\ AbortObserved) =>
    ~Main.result.success /\ Main.result.error = ErrAbort
C9_Witness ==
  /\ Done /\ StepMode /\ AbortObserved
  /\ Main.walkError = ErrStepFail
  /\ Main.result.error = ErrAbort /\ ~Main.result.success

(***************************************************************************)
(* Claims about the scheduler                                              *)
(***************************************************************************)
\* the activations of checkSchedules() awaiting an onWorkflowRun call
Awaiting == {ticks[id] : id \in DOMAIN ticks}

\* C1: when the run of a due workflow raises during a tick, the persisted
\* lastRun and nextRun of that workflow are the same after the tick as before
\* it, and the next tick that meets the workflow in the same condition calls
\* onWorkflowRun for it again.
C1_RetryUntilSuccess ==
  /\ \A e \in sched.ended : e.changed = {}
  /\ \A t \in Awaiting \cup sched.ended : (t.retryAtStart \cap t.seen) \subseteq t.invoked

\* C2: no pass of checkSchedules() begins while an earlier one still awaits
\* onWorkflowRun: at most one scheduler-initiated run is in flight.
C2_TicksNeverOverlap == Cardinality(Awaiting) <= 1

(***************************************************************************)
(* Claims about calculateNextRun                                           *)
(***************************************************************************)
\* the schedule's time of day, in ms after local midnight
TimeOfDay == LET hm == parseTime(probe.workflow.schedule.time)
             IN hm[1] * MsPerHour + hm[2] * MsPerMinute
\* the instants of local day `day` at which the local clock reads the schedule's time
AtTime(day) ==
  {u \in {day * MsPerDay + TimeOfDay - offset : offset \in {zone.before, zone.after}} :
     Wall(u) = day * MsPerDay + TimeOfDay}
\* the local day of the call
Today == Wall(probe.now) \div MsPerDay
\* calculateNextRun has returned for an enabled daily schedule whose time the
\* local clock reads exactly once today and once tomorrow
DailyCalculated ==
  /\ probe.called = "calculateNextRun"
  /\ probe.workflow.schedule.enabled
  /\ probe.workflow.schedule.type = "daily"
  /\ Cardinality(AtTime(Today)) = 1
  /\ Cardinality(AtTime(Today + 1)) = 1
\* the result is today at T when that is after now, else tomorrow at T
TodayElseTomorrow ==
  IF \E u \in AtTime(Today) : u > probe.now
  THEN probe.result \in AtTime(Today)
  ELSE probe.result \in AtTime(Today + 1)

\* C10 (as stated): for a daily schedule with time T, calculateNextRun at
\* instant now returns today at T when that is strictly after now, otherwise
\* tomorrow at T; the result is strictly greater than now and at most 24
\* hours ahead.
C10_DailyWithin24Hours ==
  DailyCalculated =>
    /\ TodayElseTomorrow
    /\ probe.result > probe.now
    /\ probe.result - probe.now <= MsPerDay

\* C10 (amended): as stated for a time T that the local clock reads once a
\* day, but the result is at most 24 hours ahead as read on the local clock,
\* which is more than 24 hours from now when the clock is set back in between.
C10_DailyWithinOneLocalDay ==
  DailyCalculated =>
    /\ TodayElseTomorrow
    /\ probe.result > probe.now
    /\ Wall(probe.result) - Wall(probe.now) <= MsPerDay

\* at 09:00 sharp on the day before the clock goes back, a 09:00 schedule
\* rolls to tomorrow, 25 hours ahead
C10_Witness ==
  /\ DailyCalculated
  /\ probe.result \in AtTime(Today + 1)
  /\ probe.result - probe.now = MsPerDay + MsPerHour

\* calculateNextRun has returned for an enabled weekly schedule
WeeklyCalculated ==
  /\ probe.called = "calculateNextRun"
  /\ probe.workflow.schedule.enabled
  /\ probe.workflow.schedule.type = "weekly"
\* the schedule's weekday d (Monday when unset)
TargetDay ==
  IF probe.workflow.schedule.dayOfWeek = -1 THEN 1 ELSE probe.workflow.schedule.dayOfWeek
\* the local days from today to the same weekday a week later
WeekAhead == Today..(Today + 7)
\* the instants after now, within that week, that fall on weekday d at time T
WeeklyAfterNow ==
  {u \in UNION {AtTime(day) : day \in {x \in WeekAhead : x % 7 = TargetDay}} : u > probe.now}
\* the result is the earliest of them; on weekday d with T passed it is a week later
EarliestWeekly ==
  /\ probe.result \in WeeklyAfterNow
  /\ \A u \in WeeklyAfterNow : probe.result <= u
  /\ (Today % 7 = TargetDay /\ \A u \in AtTime(Today) : u <= probe.now)
       => probe.result \in AtTime(Today + 7)
\* the local clock reads the schedule's time exactly once on every day of the week ahead
TimeReadOnceDaily == \A day \in WeekAhead : Cardinality(AtTime(day)) = 1

\* C11 (as stated): for a weekly schedule with dayOfWeek d and time T,
\* calculateNextRun at instant now returns the earliest instant strictly after
\* now that falls on weekday d at time T; on weekday d with T passed (or equal
\* to now) that is the same weekday one week later.
\* (taken where weekday d itself has T exactly once, so that "weekday d at
\* time T" names one instant)
C11_WeeklyEarliestAfterNow ==
  (WeeklyCalculated /\ \A day \in WeekAhead : day % 7 = TargetDay => Cardinality(AtTime(day)) = 1)
    => EarliestWeekly

\* C11 (amended): the same, for a time T that the local clock reads exactly
\* once on each day of the week ahead (no clock change skips or repeats T).
C11_WeeklyEarliestWhenTimeReadOnce ==
  (WeeklyCalculated /\ TimeReadOnceDaily) => EarliestWeekly

\* on the target weekday, at or after T: the result is a week later
C11_Witness ==
  /\ WeeklyCalculated /\ TimeReadOnceDaily
  /\ Today % 7 = TargetDay
  /\ probe.result \in AtTime(Today + 7)

(***************************************************************************)
(* Claims about export and import                                          *)
(***************************************************************************)
\* importWorkflow has returned for the text exportWorkflow made of probe.workflow
RoundTripped == probe.called = "importWorkflow"
\* the result keeps the content, has a generated id other than the original
\* one, and carries the import time in both timestamps
RoundTripResult ==
  /\ probe.result.accepted
  /\ LET w == probe.workflow
         r == probe.result.workflow[1]
     IN /\ r.name = w.name /\ r.description = w.description /\ r.steps = w.steps
        /\ r.mission = w.mission /\ r.schedule = w.schedule
        /\ r.id # w.id /\ r.id \in {generateWorkflowId(clock, x) : x \in Randoms}
        /\ r.createdAt = clock /\ r.updatedAt = clock

\* C12 (as stated): for every workflow w, import(export(w)) is accepted and
\* returns a workflow with w's name, description, steps, mission and schedule,
\* a newly generated id different from w.id, and createdAt and updatedAt set
\* to the import time.
C12_RoundTrip == RoundTripped => RoundTripResult

\* C12 (amended): the same, for every workflow w whose name is not empty.
C12_RoundTripOfNamed == (RoundTripped /\ probe.workflow.name # "") => RoundTripResult

\* a named workflow with a schedule and timestamps older than the import went round
C12_Witness ==
  /\ RoundTripped /\ probe.result.accepted
  /\ probe.workflow.schedule.defined
  /\ probe.workflow.createdAt < clock
  /\ probe.result.workflow[1].id # probe.workflow.id

(***************************************************************************)
(* Claims about what a tick runs and writes                                *)
(***************************************************************************)
\* the activations of checkSchedules(), suspended or over, by their history
Passes ==
  {[invoked |-> t.invoked, wrote |-> t.wrote, seen |-> t.seen, eligible |-> Eligible(t)] :
     t \in Awaiting}
    \cup {[invoked |-> e.invoked, wrote |-> e.wrote, seen |-> e.seen,
           eligible |-> e.eligible] : e \in sched.ended}

\* C13: a tick calls onWorkflowRun only for workflows that have enabled = true
\* and schedule.enabled = true; a workflow with either flag false is neither
\* run nor written by the tick, even when its nextRun is in the past.
C13_OnlyEnabledRunOrWritten ==
  \A t \in Passes : t.invoked \subseteq t.eligible /\ t.wrote \subseteq t.eligible

\* a tick passed a disabled workflow whose nextRun is in the past, left it
\* alone, and ran another workflow
C13_Witness ==
  \E t \in Passes : \E id \in t.seen \ t.eligible :
    /\ id \in DOMAIN store
    /\ store[id].schedule.nextRun # NoTime /\ store[id].schedule.nextRun <= clock
    /\ id \notin t.invoked \cup t.wrote
    /\ t.invoked # {}

(***************************************************************************)
(* Claims about when a schedule advances                                   *)
(***************************************************************************)
\* in this step a run returned to a suspended activation, which then saved
\* the workflow with lastRun = the activation's now and nextRun = calculateNextRun
\* of the workflow so updated
Returned(id) ==
  sched'.event # sched.event /\ sched'.event.kind = "returned" /\ sched'.event.id = id
SuccessPersisted(id) ==
  /\ Returned(id)
  /\ LET t == ticks[sched'.event.tick]
         updated == [t.workflows[t.i] EXCEPT !.schedule.lastRun = t.now]
     IN /\ store'[id].schedule.lastRun = t.now
        /\ store'[id].schedule.nextRun = calculateNextRun(updated, clock, clock)
        /\ store'[id] = stamp([updated EXCEPT !.schedule.nextRun =
                                 calculateNextRun(updated, clock, clock)], clock)
\* in this step the unset nextRun of the workflow was computed, lastRun kept
InitialComputation(id) ==
  /\ store[id].schedule.nextRun = NoTime
  /\ store'[id].schedule.lastRun = store[id].schedule.lastRun
  /\ store'[id].schedule.nextRun = calculateNextRun(store[id], clock, clock)

\* C14: when onWorkflowRun for a due workflow returns, the scheduler sets
\* lastRun to the tick's now and nextRun to calculateNextRun of the updated
\* workflow and saves the record; a tick changes lastRun and nextRun in no
\* other case but the initial computation of an unset nextRun.
C14_AdvanceOnlyOnSuccess ==
  [][/\ Returned(sched'.event.id) => SuccessPersisted(sched'.event.id)
     /\ \A id \in DOMAIN store :
          RunTimes(store'[id]) # RunTimes(store[id])
            => SuccessPersisted(id) \/ InitialComputation(id)]_vars

\* a successful run has been persisted: lastRun is set and nextRun lies after it
C14_Witness ==
  /\ sched.event.kind = "returned"
  /\ store[sched.event.id].schedule.lastRun # NoTime
  /\ store[sched.event.id].schedule.nextRun > store[sched.event.id].schedule.lastRun

(***************************************************************************)
(* Claims about the scheduler's timer                                      *)
(***************************************************************************)
\* C15: after any sequence of start() and stop() calls at most one recurring
\* timer is armed: a start() while a timer is armed clears it before arming
\* the new one and replaces the callbacks; after stop() no timer is armed and
\* the callbacks are cleared.
C15_AtMostOneTimer ==
  /\ Cardinality(DOMAIN timers) <= 1
  /\ schedulerInterval = NoTimer => (timers = <<>> /\ callbacks = NoCallbacks)
  /\ schedulerInterval # NoTimer =>
       /\ DOMAIN timers = {schedulerInterval}
       /\ schedulerInterval = sched.nStarts
       /\ callbacks = Callbacks[sched.nStarts]

\* a start() found a timer armed, and its own timer is the one armed now
C15_Witness ==
  /\ sched.event.kind = "start"
  /\ sched.replaced # NoTimer
  /\ DOMAIN timers = {schedulerInterval} /\ schedulerInterval # sched.replaced

(***************************************************************************)
(* Claims about who writes lastRun and nextRun                             *)
(***************************************************************************)
\* C16: the persisted lastRun and nextRun of an existing workflow are changed
\* only by the scheduler: a step that changes them is a step of a handler of
\* the scheduler (which leaves its trace in sched), never the web client's
\* saveWorkflow message.
C16_OnlySchedulerWritesRunTimes ==
  [][(\E id \in DOMAIN store \cap DOMAIN store' : RunTimes(store'[id]) # RunTimes(store[id]))
       => sched' # sched]_vars

(***************************************************************************)
(* Claims about errors of the Agent Runner                                 *)
(***************************************************************************)
\* the run with every "raised" line of its logs read as a "failed" line
AsFailure(lines) ==
  [i \in DOMAIN lines |->
     IF lines[i].message = "raised" THEN [lines[i] EXCEPT !.message = "failed"] ELSE lines[i]]
RaiseAsFailure(e) == [e EXCEPT !.logs = AsFailure(@), !.sink = AsFailure(@)]
\* in this step the Agent Runner raised during a step
RaisedInStep ==
  /\ Main.pc = "step_await"
  /\ Len(Main'.logs) > Len(Main.logs)
  /\ Main'.logs[Len(Main.logs) + 1].message = "raised"
\* where execute() can be: before the call, suspended at an await, or returned
Positions == {"init", "mission_await", "step_await", "backoff", "done"}

\* C17: execute() never raises: whatever the Agent Runner does (returns
\* success, returns failure, raises), a run is at a position of execute() or
\* has returned a structured result; and a raise of the Agent Runner during a
\* step leaves the run where a returned success=false would have left it, the
\* text of the log line apart (same attempt count, same retry or onFailure
\* resolution, same result).
C17_RaiseIsFailure ==
  [][/\ \A r \in DOMAIN executor :
          /\ executor'[r].pc \in Positions
          /\ executor'[r].pc = "done" => executor'[r].result.returned
     /\ RaisedInStep => RaiseAsFailure(Main') = RaiseAsFailure(stepSettled(Main, "fail"))]_vars
\* the runner raised on the first attempt of a step, the step was tried
\* again and the runner raised again, and execute() returned a result
C17_Witness ==
  /\ Done /\ Main.result.returned /\ ~Main.result.success
  /\ Len(Main.calls) = 2 /\ Main.calls[1] = Main.calls[2]
  /\ Cardinality({i \in DOMAIN Main.logs : Main.logs[i].message = "raised"}) = 2

(***************************************************************************)
(* Claims about mission mode                                               *)
(***************************************************************************)
\* what a mission run has handed to the Agent Runner, given the maxTurns expected
OneMissionCall(expected) ==
  /\ Main.pc = "init" => Main.calls = <<>>
  /\ Main.pc \in {"mission_await", "done"} =>
       /\ Main.calls = <<Main.workflow.mission>>
       /\ Main.turns = <<expected>>
  /\ Done => Main.result.returned /\ Main.result.stepsExecuted = 1

\* C19: in mission mode execute() makes exactly one Agent Runner call, with
\* the mission text and the workflow's maxTurns (30 when unset), and the result
\* reports stepsExecuted = 1 whether the call returns success, returns failure
\* or raises.
C19_OneCallWithMaxTurns ==
  MissionMode(Main.workflow) =>
    OneMissionCall(IF Main.workflow.maxTurns = NoMaxTurns THEN 30 ELSE Main.workflow.maxTurns)
\* C19 (amended): in mission mode execute() makes exactly one Agent Runner
\* call, with the mission text and the workflow's maxTurns (30 when unset or
\* 0), and the result reports stepsExecuted = 1 whether the call returns
\* success, returns failure or raises.
C19_OneCallWithMaxTurnsOrDefault ==
  MissionMode(Main.workflow) =>
    OneMissionCall(IF Main.workflow.maxTurns \in {NoMaxTurns, 0}
                   THEN 30 ELSE Main.workflow.maxTurns)
\* a mission without maxTurns whose one call, with 30 turns, raised
C19_Witness ==
  /\ Done /\ MissionMode(Main.workflow) /\ Main.workflow.maxTurns = NoMaxTurns
  /\ Main.calls = <<"go">> /\ Main.turns = <<30>>
  /\ Main.result.error = ErrRaised /\ Main.result.stepsExecuted = 1

(***************************************************************************)
(* Claims about a workflow with nothing to run                             *)
(***************************************************************************)
NothingToRun == Main.workflow.mission = "" /\ Len(Main.workflow.steps) = 0
StartedEntry == [stepId |-> "workflow", type |-> "info", message |-> "started"]

\* C20: a workflow with no non-empty mission and no steps: execute() returns
\* at once with success = false, stepsExecuted = 0 and the nothing-to-run
\* error, the Agent Runner is never called, and the logs hold exactly one
\* entry, the workflow-started one.
C20_NothingToRunFailsAtOnce ==
  (NothingToRun /\ Main.pc # "init") =>
    /\ Done /\ Main.result.returned
    /\ ~Main.result.success
    /\ Main.result.stepsExecuted = 0
    /\ Main.result.error = ErrNothing
    /\ Main.calls = <<>>
    /\ Main.logs = <<StartedEntry>>
\* execute() has returned for a workflow without mission and steps
C20_Witness ==
  /\ NothingToRun /\ Done
  /\ Main.result.error = ErrNothing /\ Len(Main.logs) = 1

(***************************************************************************)
(* Claims about calculateNextRun() and getNextRunTime() as functions       *)
(***************************************************************************)
\* a call of calculateNextRun or getNextRunTime happens in this step
Calculated == probe.called = "no" /\ probe'.called # "no"
SchedulingOff(workflow) == ~workflow.schedule.defined \/ ~workflow.schedule.enabled

\* C18: calculateNextRun and getNextRunTime are pure with respect to the
\* scheduler and the store: a call leaves the workflow passed in, the store,
\* the timer and the callbacks as they were, and it returns absent whenever
\* the workflow has no schedule or its schedule.enabled is false.
C18_PureAndAbsentWhenOff ==
  [][Calculated =>
       /\ probe'.workflow = probe.workflow
       /\ UNCHANGED <<store, schedulerInterval, callbacks, timers, ticks, sched, client>>
       /\ SchedulingOff(probe.workflow) => probe'.result = NoTime]_vars
\* getNextRunTime was called on a weekly workflow whose schedule is disabled
C18_Witness ==
  /\ probe.called = "getNextRunTime"
  /\ probe.workflow.schedule.defined /\ ~probe.workflow.schedule.enabled
  /\ probe.workflow.schedule.type = "weekly"
  /\ probe.result = NoTime

(***************************************************************************)
(* Claims about abort and the attempts of a step                           *)
(***************************************************************************)
\* C21: in step mode every attempt is guarded by the abort flag: once abort()
\* has been called no new Agent Runner attempt is started, not even the retry
\* whose back-off was pending when abort() was called.
C21_NoAttemptAfterAbort ==
  [][(StepMode /\ Main.aborted) => Main'.calls = Main.calls]_vars

\* the Agent Runner's call for a step settles in this step, as a failure
\* (returned or raised) or as a success
AttemptFails ==
  /\ Main.pc = "step_await"
  /\ Len(Main'.logs) > Len(Main.logs)
  /\ Main'.logs[Len(Main.logs) + 1].message \in {"failed", "raised"}
AttemptSucceeds ==
  /\ Main.pc = "step_await"
  /\ Len(Main'.logs) > Len(Main.logs)
  /\ Main'.logs[Len(Main.logs) + 1].message = "completed"
\* the run has left the visit of the step it was at and follows the reference
\* for this outcome
VisitSettled(success) ==
  LET next == findNextStep(Main.workflow, Main.currentStep, success) IN
  /\ Main'.pc \in {"step_await", "done"}
  /\ Main'.pc = "step_await" =>
       Main'.currentStep = next /\ Main'.attempt = 0 /\ Main'.visitCalls = 1
  /\ Main'.pc = "done" => Main'.walkError \in {NoError, ErrStepFail, ErrLimit}
  /\ next = NoStep =>
       Main'.pc = "done" /\ Main'.walkError = (IF success THEN NoError ELSE ErrStepFail)
\* the calls of the latest visit, all with the prompt of its step
VisitCallsOfStep ==
  /\ Main.visitCalls <= Len(Main.calls)
  /\ \A k \in 1..Len(Main.calls) :
       k > Len(Main.calls) - Main.visitCalls => Main.calls[k] = Step(Main).prompt

\* C22: one visit of a step with retryCount = r, no abort: at most r+1 Agent
\* Runner calls, all with the step's prompt; after a failed attempt another one
\* follows as long as fewer than r+1 were made; when all r+1 failed the step is
\* settled as failed; after a successful attempt the visit is over.
C22_AtMostRetryCountPlusOne ==
  [][(StepMode /\ ~Main.aborted /\ ~Main'.aborted) =>
       /\ Main'.pc \in {"step_await", "backoff"} =>
            /\ Main'.visitCalls <= Main'.workflow.steps[Main'.currentStep].retryCount + 1
            /\ VisitCallsOfStep'
       /\ (AttemptFails /\ Main.visitCalls < Step(Main).retryCount + 1) =>
            /\ Main'.pc = "backoff" /\ Main'.currentStep = Main.currentStep
            /\ Main'.calls = Main.calls
       /\ (Main.pc = "backoff") =>
            /\ Main'.pc = "step_await" /\ Main'.currentStep = Main.currentStep
            /\ Main'.visitCalls = Main.visitCalls + 1
       /\ (AttemptFails /\ Main.visitCalls >= Step(Main).retryCount + 1) =>
            Main.visitCalls = Step(Main).retryCount + 1 /\ VisitSettled(FALSE)
       /\ AttemptSucceeds => VisitSettled(TRUE)]_vars
\* a step with retryCount = 1 whose two attempts failed, with a second step
\* reached through onFailure
C22_Witness ==
  /\ StepMode /\ ~Main.aborted /\ NSteps = 2
  /\ Main.workflow.steps[1].retryCount = 1
  /\ Main.calls = <<PromptAt(1), PromptAt(1), PromptAt(2)>>
  /\ Main.currentStep = 2 /\ Main.pc = "step_await"

(***************************************************************************)
(* Claims about how the walk ends                                          *)
(***************************************************************************)
\* the attempt that settles in this step is the last one of its visit
VisitFails == AttemptFails /\ Main'.pc # "backoff"
\* the walk ends in this step, below the cap
WalkEnds == ~Done /\ Done' /\ Main'.stepsExecuted <= MaxStepExecutions
FailureResult ==
  [returned |-> TRUE, success |-> FALSE, stepsExecuted |-> Main'.stepsExecuted,
   lastStepId |-> Step(Main).id, error |-> ErrStepFail]
SuccessResult ==
  [returned |-> TRUE, success |-> TRUE, stepsExecuted |-> Main'.stepsExecuted,
   lastStepId |-> Step(Main).id, error |-> NoError]

\* C23: with no abort and below the cap the walk ends exactly when the next
\* step resolved for the step that just ran is absent; the result is then
\* success=false with the step-failure error when that step failed, and
\* success=true with no error when it succeeded, whatever failed before.
C23_WalkEndsWhenNoNextStep ==
  [][(StepMode /\ ~Main.aborted /\ ~Main'.aborted) =>
       /\ WalkEnds => VisitFails \/ AttemptSucceeds
       /\ VisitFails =>
            /\ Done' <=> \/ findNextStep(Main.workflow, Main.currentStep, FALSE) = NoStep
                         \/ Main'.stepsExecuted > MaxStepExecutions
            /\ WalkEnds => Main'.result = FailureResult
       /\ AttemptSucceeds =>
            /\ Done' <=> \/ findNextStep(Main.workflow, Main.currentStep, TRUE) = NoStep
                         \/ Main'.stepsExecuted > MaxStepExecutions
            /\ WalkEnds => Main'.result = SuccessResult]_vars
\* the first step failed and was routed on through onFailure, the second
\* succeeded and had no next step: success=true with no error
C23_Witness ==
  /\ Done /\ StepMode /\ ~Main.aborted /\ NSteps = 2
  /\ HasLog([stepId |-> "s1", type |-> "error", message |-> "failed"])
  /\ Main.logs[Len(Main.logs) - 1] = Completed(2)
  /\ Main.result.success /\ Main.result.error = NoError

(***************************************************************************)
(* Claims about references to steps                                        *)
(***************************************************************************)
Sentinels == {"next", "end", "retry"}
Ref(w, i, ok) == IF ok THEN w.steps[i].onSuccess ELSE w.steps[i].onFailure
Known(w, ref) == \E j \in 1..Len(w.steps) : w.steps[j].id = ref
\* step lists in which an id occurs more than once
RepeatedIdSteps ==
  {[k \in 1..3 |-> [id |-> ids[k], prompt |-> "p1", onSuccess |-> ref, onFailure |-> ref,
                    retryCount |-> 0]] :
     ids \in [1..3 -> {"s1", "s2"}], ref \in {"s1", "s2", UnknownId}}
\* a reference that is no sentinel resolves to the first step with that id,
\* and to no step when there is none
IdResolves(w) ==
  \A i \in 1..Len(w.steps) : \A ok \in BOOLEAN :
    Ref(w, i, ok) \notin Sentinels =>
      LET next == findNextStep(w, i, ok) IN
      IF Known(w, Ref(w, i, ok))
      THEN /\ next # NoStep /\ w.steps[next].id = Ref(w, i, ok)
           /\ \A j \in 1..(next - 1) : w.steps[j].id # Ref(w, i, ok)
      ELSE next = NoStep
\* a step that succeeded with an onSuccess naming no step is followed by the
\* end of the run
UnknownRefEndsWalk ==
  \A k \in 1..Len(Main.logs) : \A i \in 1..NSteps :
    (Main.logs[k] = Completed(i) /\ Main.workflow.steps[i].onSuccess \notin Sentinels
       /\ ~Known(Main.workflow, Main.workflow.steps[i].onSuccess)) =>
      /\ Done /\ Main.result.returned
      /\ k = Len(Main.logs) - 1 /\ Main.logs[k + 1].stepId = "workflow"
      /\ Main.result.lastStepId = StepIdAt(i)
\* the run ended right after a step whose onSuccess names no step succeeded
EndedOnUnknownRef ==
  /\ Done /\ StepMode /\ Len(Main.logs) >= 2
  /\ \E i \in 1..NSteps :
       /\ Main.logs[Len(Main.logs) - 1] = Completed(i)
       /\ Main.workflow.steps[i].onSuccess \notin Sentinels
       /\ ~Known(Main.workflow, Main.workflow.steps[i].onSuccess)

\* C24 (as stated): an onSuccess/onFailure value that is neither a sentinel
\* nor a step id resolves to no next step and ends the walk without raising,
\* with success=true if the referencing step succeeded; a value that matches
\* a step id resolves to the first step with that id.
C24_UnknownRefEndsSuccessfully ==
  /\ IdResolves(Main.workflow)
  /\ \A steps \in RepeatedIdSteps : IdResolves([mission |-> "", steps |-> steps])
  /\ UnknownRefEndsWalk
  /\ EndedOnUnknownRef => Main.result.success
\* C24 (amended): the same, the result being success=true provided abort()
\* was not called before the run ended (an aborted run returns the abort
\* error).
C24_UnknownRefEndsSuccessfullyUnlessAborted ==
  /\ IdResolves(Main.workflow)
  /\ \A steps \in RepeatedIdSteps : IdResolves([mission |-> "", steps |-> steps])
  /\ UnknownRefEndsWalk
  /\ EndedOnUnknownRef => (Main.result.success <=> ~AbortObserved)
\* the only step failed once, then succeeded with an onSuccess that names no
\* step: the run ended with success=true
C24_Witness ==
  /\ EndedOnUnknownRef /\ NSteps = 1 /\ ~Main.aborted
  /\ Main.workflow.steps[1].onSuccess = UnknownId
  /\ Main.calls = <<"p1", "p1">>
  /\ Main.result.success /\ Main.result.lastStepId = "s1"

(***************************************************************************)
(* Claims about abort and the failure branch                               *)
(***************************************************************************)
\* abort() was called while the first step, whose onFailure names the second
\* step, was being executed (its call in flight or its retry pending)
AbortedInFirstStep ==
  /\ StepMode /\ NSteps = 2
  /\ Main.workflow.steps[1].onFailure = "s2"
  /\ Main.abortedAt = 1 /\ Main.abortPc \in {"step_await", "backoff"}

\* C25: an abort is no failure-branch trigger: when abort() is observed while
\* a step whose onFailure names another step is being executed, that other
\* step is never executed and the run ends with the abort error, not the
\* step-failure error.
C25_AbortTakesNoFailureBranch ==
  AbortedInFirstStep =>
    /\ \A k \in 1..Len(Main.calls) : Main.calls[k] # PromptAt(2)
    /\ \A k \in 1..Len(Main.logs) : Main.logs[k].stepId # StepIdAt(2)
    /\ Done => Main.result.error = ErrAbort /\ ~Main.result.success
                 /\ Main.result.lastStepId = StepIdAt(1)
\* abort() came during the first attempt of the first step, the attempt
\* failed, and the run ended with the abort error without touching s2
C25_Witness ==
  /\ AbortedInFirstStep /\ Done /\ Main.abortPc = "step_await"
  /\ HasLog([stepId |-> "s1", type |-> "error", message |-> "failed"])
  /\ Main.calls = <<"p1">>
  /\ Main.result.error = ErrAbort

(***************************************************************************)
(* Claims about the log and the result of a mission                        *)
(***************************************************************************)
\* the Agent Runner's call for the mission settles in this step
MissionCallSettles == Main.pc = "mission_await" /\ Main'.pc = "done"
LastLog(e) == e.logs[Len(e.logs)]

\* C26: in mission mode the settling of the Agent Runner's call appends
\* exactly one log entry, of type success if the runner returned success=true
\* and of type error otherwise; a raise gives success=false with the text of
\* the exception as error, a returned success=false gives the returned result
\* text as error.
C26_MissionSettlesWithOneLog ==
  [][MissionCallSettles =>
       /\ Len(Main'.logs) = Len(Main.logs) + 1
       /\ SubSeq(Main'.logs, 1, Len(Main.logs)) = Main.logs
       /\ LastLog(Main').stepId = "mission"
       /\ LastLog(Main').type = (IF Main'.result.success THEN "success" ELSE "error")
       /\ LastLog(Main').message \in {"completed", "failed", "raised"}
       /\ LastLog(Main').message = "completed" =>
            Main'.result.success /\ Main'.result.error = NoError
       /\ LastLog(Main').message = "failed" =>
            ~Main'.result.success /\ Main'.result.error = ErrResult
       /\ LastLog(Main').message = "raised" =>
            ~Main'.result.success /\ Main'.result.error = ErrRaised]_vars
\* a mission whose runner streamed a line and then raised
C26_Witness ==
  /\ Done /\ MissionMode(Main.workflow) /\ Main.progress = 1
  /\ LastLog(Main) = [stepId |-> "mission", type |-> "error", message |-> "raised"]
  /\ Main.result.error = ErrRaised /\ ~Main.result.success

(***************************************************************************)
(* Claims about the log as the trace of a run                              *)
(***************************************************************************)
\* the entries of the log with one of these messages, in order
Entries(messages) == SelectSeq(Main.logs, LAMBDA entry : entry.message \in messages)
IndexOfStepId(id) == IF id = StepIdAt(1) THEN 1 ELSE 2
Started == Entries({"run"})
Outcomes27 == Entries({"completed", "failed", "raised"})
\* the log entries that open a visit: a "run" that no "retry" announced, or
\* the entry of the cap
IsVisit(k) ==
  \/ Main.logs[k].message = "limit"
  \/ Main.logs[k].message = "run" /\ (k = 1 \/ Main.logs[k - 1].message # "retry")
VisitEntries == {k \in 1..Len(Main.logs) : IsVisit(k)}

\* C27: in step mode every attempt, every retry and every visit of a step
\* leaves log entries from which the run can be read back: the "run" entries
\* are the Agent Runner calls in order, each settled attempt has its outcome
\* entry for the same step, every retry has its "retry" entry, the visits
\* are as many as stepsExecuted, and the last visit is lastStepId.
C27_LogTellsThePath ==
  StepMode =>
    /\ [k \in 1..Len(Started) |-> PromptAt(IndexOfStepId(Started[k].stepId))] = Main.calls
    /\ Len(Outcomes27) = Len(Main.calls) - (IF Main.pc = "step_await" THEN 1 ELSE 0)
    /\ \A k \in 1..Len(Outcomes27) : Outcomes27[k].stepId = Started[k].stepId
    /\ Len(Entries({"retry"})) =
         Len(Main.calls) - Main.visitsRun + (IF Main.pc = "backoff" THEN 1 ELSE 0)
    /\ Cardinality(VisitEntries) = Main.stepsExecuted
    /\ (Done /\ VisitEntries # {}) =>
         \E k \in VisitEntries :
           /\ \A j \in VisitEntries : j <= k
           /\ Main.logs[k].stepId = Main.result.lastStepId
\* a run of two steps: the first failed, was tried again and succeeded, the
\* second failed; the log holds the three attempts, the retry and the outcomes
C27_Witness ==
  /\ Done /\ StepMode /\ NSteps = 2 /\ ~Main.aborted
  /\ Main.calls = <<"p1", "p1", "p2">>
  /\ Len(Entries({"retry"})) = 1
  /\ [k \in 1..3 |-> Outcomes27[k].message] = <<"failed", "completed", "failed">>
  /\ Main.result.stepsExecuted = 2

\* C28: the log is append-only and in execution order: every step of a run
\* leaves the entries logged so far in place and adds new ones after them (so
\* the log is at every moment a prefix of the logs returned), and the onLog
\* callback has received exactly the entries of the log, in the same order.
C28_LogAppendOnly ==
  [][\A r \in DOMAIN executor :
       /\ Len(executor'[r].logs) >= Len(executor[r].logs)
       /\ SubSeq(executor'[r].logs, 1, Len(executor[r].logs)) = executor[r].logs
       /\ executor'[r].sink = executor'[r].logs]_vars
\* a run that logged lines of the executor and a line streamed by the runner
C28_Witness ==
  /\ Done /\ StepMode /\ Main.progress = 1 /\ Len(Main.calls) = 2
  /\ Len(Main.logs) >= 6 /\ Main.sink = Main.logs
  /\ Main.logs[1] = StartedEntry
  /\ LastLog(Main).stepId = "workflow"

(***************************************************************************)
(* Claims about errors of a scheduled run                                  *)
(***************************************************************************)
\* the run a tick awaited raised in this step
Raised == sched'.event # sched.event /\ sched'.event.kind = "raised"

\* C29: a tick never ends with an uncaught error because of a scheduled run:
\* when onWorkflowRun raises, the error is caught and reported through onLog
\* and the tick goes on with the remaining workflows, also when stop() was
\* called while the run was in flight.
C29_RunErrorsAreCaught ==
  [][Raised =>
       /\ \A e \in sched'.ended \ sched.ended : ~e.crashed
       /\ \E k \in 1..Len(sched'.log) : sched'.log[k] = <<"error", sched'.event.id>>]_vars

(***************************************************************************)
(* Claims about a workflow whose nextRun is unset                          *)
(***************************************************************************)
\* a handler of a tick ran in this step: the tick began, or its run settled
TickRuns == sched'.event # sched.event /\ sched'.event.kind \in {"tick", "returned", "raised"}
\* the records the handler has before it: the store as it loads it, or the
\* rest of the list it loaded when it began
Ahead ==
  IF sched'.event.kind = "tick" THEN {store[id] : id \in DOMAIN store}
  ELSE LET t == ticks[sched'.event.tick]
       IN {t.workflows[j] : j \in {k \in DOMAIN t.workflows : k > t.i}}
\* of these, the ids of the enabled workflows with an enabled schedule and no nextRun
UnsetAhead ==
  {w.id : w \in {x \in Ahead : /\ x.enabled /\ x.schedule.defined /\ x.schedule.enabled
                               /\ x.schedule.nextRun = NoTime}}
\* the tick after the handler: suspended again, or over
TickAfter ==
  IF sched'.event.tick \in DOMAIN ticks' THEN {ticks'[sched'.event.tick]}
  ELSE sched'.ended \ sched.ended

\* C30: a tick that meets an enabled workflow with an enabled schedule and
\* no nextRun computes nextRun and saves it, and does not call onWorkflowRun
\* for that workflow in this tick, even when the computed nextRun is already
\* due; no tick both computes the nextRun of a workflow and runs it.
C30_UnsetNextRunIsComputedNotRun ==
  [][/\ \A t \in Awaiting' \cup sched'.ended :
          t.computed \cap t.invoked = {} /\ t.computed \subseteq t.wrote
     /\ TickRuns =>
          \A t \in TickAfter : \A id \in UnsetAhead \cap (t.seen \ t.invoked) :
            /\ id \in t.computed
            /\ id \in DOMAIN store'
            /\ store'[id].schedule.nextRun = calculateNextRun(store'[id], clock, clock)
            /\ store'[id].updatedAt = clock
     /\ TickRuns => \A t \in TickAfter : UnsetAhead \cap t.invoked = {}]_vars
\* a tick met a never-run interval workflow without nextRun, saved a nextRun
\* that is already due, and ended without running it
C30_Witness ==
  \E e \in sched.ended : \E id \in e.computed :
    /\ id \in DOMAIN store /\ id \notin e.invoked
    /\ store[id].schedule.type = "interval" /\ store[id].schedule.lastRun = NoTime
    /\ store[id].schedule.nextRun # NoTime /\ store[id].schedule.nextRun <= clock

(***************************************************************************)
(* Claims about an interval schedule                                       *)
(***************************************************************************)
\* the enabled interval workflows of the store
IntervalIds ==
  {id \in DOMAIN store : /\ store[id].schedule.defined /\ store[id].schedule.enabled
                         /\ store[id].schedule.type = "interval"}
\* calculateNextRun of a stored interval workflow is its lastRun (0 when
\* absent) plus ms(schedule), in this state and in the next
IntervalFrom(ms(_)) ==
  /\ \A id \in IntervalIds :
       calculateNextRun(store[id], clock, clock)
         = store[id].schedule.lastRun + ms(store[id].schedule)
  /\ \A id \in DOMAIN store' :
       (store'[id].schedule.enabled /\ store'[id].schedule.type = "interval") =>
         calculateNextRun(store'[id], clock', clock')
           = store'[id].schedule.lastRun + ms(store'[id].schedule)
\* startScheduler() saved, for a workflow without nextRun, what calculateNextRun returned
StartComputes(ms(_)) ==
  sched'.nStarts # sched.nStarts =>
    \A id \in IntervalIds :
      store[id].schedule.nextRun = NoTime /\ store[id].schedule.lastRun + ms(store[id].schedule) # 0
        => store'[id].schedule.nextRun = store[id].schedule.lastRun + ms(store[id].schedule)
\* the interval as the claim has it, and as the code has it (part_000:27)
StatedMs(schedule) == schedule.intervalMinutes * 60000
IntervalMs(schedule) ==
  (IF schedule.intervalMinutes = 0 THEN 60 ELSE schedule.intervalMinutes) * 60000

\* C31 (as stated): for an interval schedule calculateNextRun returns
\* lastRun + intervalMinutes * 60000, with lastRun taken as 0 when absent;
\* after a successful scheduled run the persisted nextRun is the new lastRun
\* plus the interval and is strictly greater than lastRun.
C31_IntervalAfterLastRun ==
  [][/\ IntervalFrom(StatedMs)
     /\ StartComputes(StatedMs)
     /\ \A id \in IntervalIds : Returned(id) =>
          /\ store'[id].schedule.lastRun = ticks[sched'.event.tick].now
          /\ store'[id].schedule.nextRun
               = store'[id].schedule.lastRun + StatedMs(store'[id].schedule)
          /\ store'[id].schedule.nextRun > store'[id].schedule.lastRun]_vars

\* C31 (amended): the same with intervalMinutes taken as 60 when absent or 0,
\* and the persisted nextRun after a successful run stated for an
\* intervalMinutes that is not negative.
C31_IntervalAfterLastRunWithDefault ==
  [][/\ IntervalFrom(IntervalMs)
     /\ StartComputes(IntervalMs)
     /\ \A id \in IntervalIds : Returned(id) =>
          /\ store'[id].schedule.lastRun = ticks[sched'.event.tick].now
          /\ store[id].schedule.intervalMinutes >= 0 =>
               /\ store'[id].schedule.nextRun
                    = store'[id].schedule.lastRun + IntervalMs(store'[id].schedule)
               /\ store'[id].schedule.nextRun > store'[id].schedule.lastRun]_vars

\* a never-run interval workflow got nextRun = 0 + interval at start, ran, and
\* its saved nextRun is the tick's instant plus the interval
C31_Witness ==
  /\ sched.event.kind = "returned"
  /\ \E e \in sched.ended : "a" \in e.invoked
  /\ store["a"].schedule.lastRun > Clock0
  /\ store["a"].schedule.nextRun = store["a"].schedule.lastRun + IntervalMs(store["a"].schedule)
  /\ store["a"].schedule.intervalMinutes \in {0, 2}

(***************************************************************************)
(* Claims about the Workflow Store                                         *)
(***************************************************************************)
\* a call of the store returned in this step
Called(name) == probe' # probe /\ probe'.called = name
\* the files of the directory that parse, and the one that names a workflow
ParseableIds == {id \in DOMAIN store : Parses(store[id])}
Times(workflows, w) == Cardinality({i \in DOMAIN workflows : workflows[i] = w})

\* C32: loadAll returns every persisted record that parses exactly once, in
\* the order of updatedAt descending; a record that does not parse is left
\* out, keeps none of the others from being returned, and does not make
\* loadAll raise.
C32_LoadAllSkipsCorrupt ==
  [][Called("loadWorkflows") =>
       LET result == probe'.loaded IN
       /\ ~result.raised
       /\ Len(result.workflows) = Cardinality(ParseableIds)
       /\ \A id \in ParseableIds : Times(result.workflows, parseWorkflow(store[id])) = 1
       /\ \A i, j \in DOMAIN result.workflows :
            i < j => result.workflows[i].updatedAt >= result.workflows[j].updatedAt
       /\ store' = store]_vars

\* loadAll returned two records, the one saved later first, from a directory
\* with a third file that does not parse
C32_Witness ==
  /\ probe.called = "loadWorkflows"
  /\ \E id \in DOMAIN store : ~Parses(store[id])
  /\ Len(probe.loaded.workflows) = 2
  /\ probe.loaded.workflows[1].updatedAt > probe.loaded.workflows[2].updatedAt
  /\ probe.loaded.workflows[1].updatedAt > Clock0

\* the files other than the one of id are as they were
OthersKept(id) ==
  /\ DOMAIN store' \ {id} = DOMAIN store \ {id}
  /\ \A x \in DOMAIN store \ {id} : store'[x] = store[x]
\* the records loadAll can return for id from the directory after the step
RecordsOf(id) ==
  {Cardinality({i \in DOMAIN r.workflows : r.workflows[i].id = id}) :
     r \in loadWorkflowsFiles(store')}

LoadedCopy == ticks[sched'.event.tick].workflows[ticks[sched'.event.tick].i]
WrittenBack ==
  LET updated == [LoadedCopy EXCEPT !.schedule.lastRun = ticks[sched'.event.tick].now]
  IN stamp([updated EXCEPT !.schedule.nextRun = calculateNextRun(updated, clock, clock)], clock)
\* a record with the three fields the scheduler sets blanked
Rest(workflow) ==
  [workflow EXCEPT !.schedule.lastRun = NoTime, !.schedule.nextRun = NoTime,
                   !.updatedAt = NoTime]

\* C34: the save after a scheduled run writes the copy of the workflow that
\* the tick loaded when it began, changed only in schedule.lastRun,
\* schedule.nextRun and updatedAt: what another writer persisted for the
\* workflow while the run was in flight is overwritten, and a workflow
\* deleted during its run exists again after the save.
C34_PostRunSaveWritesLoadedCopy ==
  [][Returned(sched'.event.id) =>
       LET id == sched'.event.id IN
       /\ id \in DOMAIN store'
       /\ store'[id] = WrittenBack
       /\ Rest(store'[id]) = Rest(LoadedCopy)
       /\ store'[id].schedule.lastRun = ticks[sched'.event.tick].now
       /\ store'[id].updatedAt = clock]_vars

\* the page deleted a workflow while its scheduled run was in flight, and
\* the save after the run created the record again
C34_Witness ==
  /\ sched.event.kind = "returned"
  /\ sched.event.id \in client.deleted
  /\ sched.event.id \notin DOMAIN client.workflows
  /\ sched.event.id \in DOMAIN store
  /\ store[sched.event.id].schedule.lastRun # NoTime

(***************************************************************************)
(* Claims about the scheduler after stop()                                 *)
(***************************************************************************)
\* stop() was called and start() has not been called since, nor is it in this step
Stopped == callbacks = NoCallbacks /\ callbacks' = NoCallbacks

\* C35: after stop(), and until start() is called again, the scheduler calls
\* onWorkflowRun for no workflow: no tick begins, and a tick that was waiting
\* for a run when stop() was called ends when that run settles, without
\* running the workflows that remain in its pass.
C35_NoRunAfterStop ==
  [][Stopped =>
       /\ sched'.nTicks = sched.nTicks
       /\ timers' = <<>>
       /\ TickRuns =>
            /\ \A k \in 1..Len(sched'.log) : sched'.log[k][1] # "run"
            /\ sched'.event.tick \notin DOMAIN ticks'
            /\ \A e \in sched'.ended \ sched.ended :
                 e.invoked = ticks[sched'.event.tick].invoked]_vars

\* stop() came while a tick waited for a run; the tick ended when the run
\* settled, and a workflow of its pass that is due was not run by it
C35_Witness ==
  /\ callbacks = NoCallbacks
  /\ ticks = <<>>
  /\ \E e \in sched.ended : \E id \in e.eligible \ e.seen :
       /\ e.crashed /\ e.invoked # {}
       /\ id \in DOMAIN store /\ Due(store[id], clock)
       /\ \A x \in sched.ended : id \notin x.invoked

(***************************************************************************)
(* Claims about the end of a run                                           *)
(***************************************************************************)
\* the largest retryCount of the steps of the workflow, 0 when it has none
LargestRetryCount ==
  IF Main.workflow.steps = <<>> THEN 0
  ELSE CHOOSE n \in {Main.workflow.steps[i].retryCount : i \in 1..NSteps} :
         \A i \in 1..NSteps : Main.workflow.steps[i].retryCount <= n
CallBound == MaxStepExecutions * (1 + LargestRetryCount)

\* C36: a run makes at most 50 * (1 + the largest retryCount of a step)
\* Agent Runner calls, whatever the step graph; and when every call of the
\* Agent Runner returns or raises (and each back-off elapses), a run that
\* was started returns a result.
C36_RunEndsWithinCallBound ==
  /\ [](Len(Main.calls) <= CallBound)
  /\ (Main.pc # "init") ~> (Done /\ Main.result.returned)

\* a run over a step that fails each time and points back at itself made
\* 50 * (1 + retryCount) calls, more than 50, and returned
C36_Witness ==
  /\ Done /\ Main.result.returned
  /\ Cyclic(Main.workflow)
  /\ LargestRetryCount > 0
  /\ Len(Main.calls) = CallBound

\* the result of a mission as the outcome of its one call decides it
\*                                                     executor.ts:183-206
MissionResult(outcome) ==
  [returned |-> TRUE, success |-> outcome = "completed", stepsExecuted |-> 1,
   lastStepId |-> "mission",
   error |-> IF outcome = "completed" THEN NoError
             ELSE IF outcome = "failed" THEN ErrResult ELSE ErrRaised]

\* C37: mission mode never reads the abort flag: whether abort() was called
\* before execute(), during the call, or not at all, the Agent Runner is
\* called once with the mission, and the result is the one the outcome of
\* that call decides: success = true when the runner returned success.
C37_MissionIgnoresAbort ==
  MissionMode(Main.workflow) =>
    /\ Main.pc # "init" => Main.calls = <<Main.workflow.mission>>
    /\ Main.pc = "init" => Main.calls = <<>>
    /\ Done => /\ LastLog(Main).message \in {"completed", "failed", "raised"}
               /\ Main.result = MissionResult(LastLog(Main).message)
    /\ ~Done => ~Main.result.returned

\* abort() was called before execute(); the mission was still handed to the
\* runner, which returned success, and the result reports success
C37_Witness ==
  /\ MissionMode(Main.workflow) /\ Done
  /\ Main.aborted /\ Main.abortPc = "init"
  /\ Main.calls = <<Main.workflow.mission>>
  /\ Main.result.success /\ Main.result.error = NoError

\* execute() returns in this step
Returns == Main.pc # "done" /\ Main'.pc = "done"

\* C38: in the result of a step-mode run with steps, success is true iff
\* error is absent and the abort flag is not set when the run returns, and
\* the last log entry is the summary of the workflow, of type success iff
\* the result's success is true.
C38_ResultAndSummaryAgree ==
  [][(StepMode /\ Returns) =>
       LET r == Main'.result IN
       /\ r.returned
       /\ r.success <=> (r.error = NoError /\ ~Main'.aborted)
       /\ LastLog(Main') = [stepId |-> "workflow",
                            type |-> IF r.success THEN "success" ELSE "error",
                            message |-> "summary"]]_vars

\* a run whose steps all succeeded was aborted before it returned: its
\* result has success = false and its summary is of type error
C38_Witness ==
  /\ StepMode /\ Done
  /\ Main.abortPc \in {"step_await", "backoff"}
  /\ Main.walkError = NoError
  /\ ~Main.result.success /\ Main.result.error = ErrAbort
  /\ LastLog(Main).stepId = "workflow" /\ LastLog(Main).type = "error"
  /\ \E k \in 1..Len(Main.logs) : Main.logs[k].type = "success"

(***************************************************************************)
(* Claims about the instant recorded as lastRun                            *)
(***************************************************************************)
\* C39: the lastRun saved after a scheduled run is the instant at which the
\* tick of the run began: the tick reads the clock once, when it begins and
\* before it runs a workflow, and writes that instant for every run of its
\* pass that returns, however late the run began or returned.
C39_LastRunIsTickStart ==
  [][/\ \A id \in DOMAIN ticks' :
          IF id \in DOMAIN ticks THEN ticks'[id].now = ticks[id].now
          ELSE ticks'[id].now = clock /\ sched'.event = Event("tick", id, "")
     /\ Returned(sched'.event.id) =>
          /\ store'[sched'.event.id].schedule.lastRun = ticks[sched'.event.tick].now
          /\ ticks[sched'.event.tick].now <= clock
          /\ store'[sched'.event.id].updatedAt = clock]_vars

\* the one tick so far ran two workflows; the runs returned at different
\* instants, both after the tick began, and both records carry the instant
\* the tick began as lastRun
C39_Witness ==
  /\ sched.nTicks = 1 /\ ticks = <<>>
  /\ \E e \in sched.ended : {"a", "b"} \subseteq e.invoked \cap e.wrote
  /\ DOMAIN store = {"a", "b"}
  /\ store["a"].schedule.lastRun = store["b"].schedule.lastRun
  /\ store["a"].schedule.lastRun = Clock0 + TickPeriod
  /\ store["a"].updatedAt # store["b"].updatedAt
  /\ store["a"].updatedAt > store["a"].schedule.lastRun
  /\ store["b"].updatedAt > store["b"].schedule.lastRun

(***************************************************************************)
(* Claims about what stepsExecuted counts                                  *)
(***************************************************************************)
\* the walk began an iteration in this step
Counted == Main'.stepsExecuted # Main.stepsExecuted
\* the iterations of the walk so far: the visits that ran their step, and
\* the one that met the limit
Iterations ==
  Main.visitsRun + (IF Done /\ Main.walkError = ErrLimit THEN 1 ELSE 0)

\* C40: stepsExecuted counts the iterations of the step walk, not the calls
\* of the Agent Runner: an iteration adds exactly 1 whatever the number of
\* attempts of its step, a retry adds nothing, a step visited again through
\* a branch is counted again, and lastStepId is the id of the step counted
\* last; the result reports both.
C40_StepsExecutedCountsVisits ==
  [][StepMode =>
       /\ Main.stepsExecuted = Iterations /\ Main'.stepsExecuted = Iterations'
       /\ Counted =>
            /\ Main'.stepsExecuted = Main.stepsExecuted + 1
            /\ Main'.currentStep # NoStep
            /\ Main'.lastStepId = Step(Main').id
       /\ ~Counted => Main'.lastStepId = Main.lastStepId
       /\ (Main.pc = "backoff" /\ Main'.calls # Main.calls) => ~Counted
       /\ Len(Main'.calls) >= Main'.visitsRun
       /\ Main'.pc = "done" =>
            /\ Main'.result.stepsExecuted = Main'.stepsExecuted
            /\ Main'.result.lastStepId = Main'.lastStepId]_vars

\* a run over one step that points back at itself on failure is in its third
\* visit of the step after two attempts in each of the first two: 3 visits
\* counted, 5 calls made
C40_Witness ==
  /\ StepMode /\ NSteps = 1 /\ Main.pc = "step_await"
  /\ Main.stepsExecuted = 3 /\ Len(Main.calls) = 5
  /\ Main.lastStepId = "s1"

====
